---- MODULE Spec2Model ----
(***************************************************************************)
(* Retrieval core of the ramhal question-answering service:                *)
(*   - fetchWitnesses / bootstrapRAG          (lib/rag.ts, legacy path)    *)
(*   - SemanticSearchEngine.search            (lib/semantic-search.ts)     *)
(*   - SemanticRAG.search, hybridBootstrapRAG (lib/semantic-rag.ts)        *)
(* References (tref) are abstract ids 1..NumRefs, strings are sequences    *)
(* of one-character strings, similarities are integers in 1/1000.          *)
(***************************************************************************)
EXTENDS Integers, Sequences, FiniteSets, TLC

\* ---------------------------------------------------------------- bounds
NumRefs == 4
MaxLegacy == 3
MaxSem == 2
NumChunks == 2
NumIds == 3
MaxLimit == 2
MaxTime == 3
MaxList == 2
MaxUpdates == 1
MaxQuestion == 2
MaxWorks == 4
MaxChapters == 5
MaxGuessWorks == 3
MaxAnswer == 6
MaxBatch == 2
MaxSaves == 2
NumSearchers == 2
MaxReads == 1
MaxText == 4
MaxChunkLength == 3
MaxPieces == 6

Refs == 1..NumRefs

\* ---------------------------------------------------------------- strings
SP == " "
EmptyStr == << >>

\* String.prototype.trim: strip white space at both ends
RECURSIVE TrimLeft(_)
TrimLeft(s) ==
  IF s = << >> THEN << >>
  ELSE IF Head(s) = SP THEN TrimLeft(Tail(s)) ELSE s

RECURSIVE TrimRight(_)
TrimRight(s) ==
  IF s = << >> THEN << >>
  ELSE IF s[Len(s)] = SP THEN TrimRight(SubSeq(s, 1, Len(s) - 1)) ELSE s

Trim(s) == TrimRight(TrimLeft(s))

\* Array.prototype.join(' ')
RECURSIVE JoinSpace(_)
JoinSpace(arr) ==
  IF arr = << >> THEN << >>
  ELSE IF Len(arr) = 1 THEN arr[1]
  ELSE arr[1] \o <<SP>> \o JoinSpace(Tail(arr))

\* ---------------------------------------------------------------- legacy path
\* The value of result.text in a getTextV3 result (text.ts:197-209): absent,
\* or a string (extractText turns an array into its first element and an
\* empty string into undefined; the first element of an array may be empty).
TextStrings == {EmptyStr, <<SP>>, <<"a">>, <<SP, "a", SP>>}
TextValues ==
  {[kind |-> "undefined", str |-> EmptyStr, arr |-> << >>]}
  \cup {[kind |-> "string", str |-> s, arr |-> << >>] : s \in TextStrings}

\* One getTextV3 call (text.ts:128-221): it throws, or it returns {ref, text};
\* ref is the reference Sefaria resolved the request to, which need not be
\* the requested one (0 stands for an empty ref, which is falsy).
ResolvedRefs == {0, 1}
Responses ==
  {[throws |-> TRUE, ref |-> 0,
    text |-> [kind |-> "undefined", str |-> EmptyStr, arr |-> << >>]]}
  \cup {[throws |-> FALSE, ref |-> r, text |-> t] : r \in ResolvedRefs, t \in TextValues}

\* rag.ts:294-297
TextContentOf(text) ==
  IF text.kind = "undefined" THEN EmptyStr
  ELSE IF text.kind = "array" THEN JoinSpace(text.arr)
  ELSE text.str

\* `textContent && textContent.trim().length > 0`
HasTextContent(tc) == tc # EmptyStr /\ Len(Trim(tc)) > 0

\* `result.ref || ref`
ResolvedRef(resp, ref) == IF resp.ref # 0 THEN resp.ref ELSE ref

\* The body of one iteration of the for loop of fetchWitnesses: the witness
\* list after the reference `ref` was fetched with response `resp`.
FetchOneAbort(witnesses, ref, resp) ==
  IF resp.throws THEN << >>
  ELSE IF HasTextContent(TextContentOf(resp.text))
       THEN Append(witnesses, [tref |-> ResolvedRef(resp, ref),
                               text |-> TextContentOf(resp.text),
                               hebrew |-> "undefined"])
       ELSE witnesses
FetchOne(witnesses, ref, resp) ==
  IF resp.throws THEN witnesses
  ELSE IF HasTextContent(TextContentOf(resp.text))
       THEN Append(witnesses, [tref |-> ResolvedRef(resp, ref),
                               text |-> TextContentOf(resp.text),
                               hebrew |-> "undefined"])
       ELSE witnesses

\* fetchWitnesses as a whole: the loop over refs with one response per ref
RECURSIVE FetchWitnesses(_, _, _)
FetchWitnesses(witnesses, refs, resps) ==
  IF refs = << >> THEN witnesses
  ELSE FetchWitnesses(FetchOne(witnesses, Head(refs), Head(resps)),
                      Tail(refs), Tail(resps))

\* lists of distinct references (generateGuessRefs returns Array.from(Set))
RECURSIVE DistinctSeqs(_)
DistinctSeqs(n) ==
  IF n = 0 THEN {<< >>}
  ELSE LET prev == DistinctSeqs(n - 1)
       IN prev \cup {Append(s, r) : s \in {p \in prev : Len(p) = n - 1}, r \in Refs}

RefLists == {s \in DistinctSeqs(MaxLegacy) :
               \A i, j \in 1..Len(s) : i # j => s[i] # s[j]}

\* ---------------------------------------------------------------- reconciler
\* What one call of the legacy function can produce.  The production legacy
\* function is bootstrapRAG: it throws (empty question) or returns the list
\* fetchWitnesses built; a response is reduced here to the three cases that
\* matter to the caller (throws, no text, text) times the resolved ref.
LegacyResponses ==
  {r \in Responses : r.throws \/ r.text.kind = "undefined"
                     \/ (r.text.kind = "string" /\ r.text.str = <<"a">>)}

LegacyLists ==
  UNION {{FetchWitnesses(<< >>, refs, resps) :
            resps \in [1..Len(refs) -> LegacyResponses]} : refs \in RefLists}

Outcome(raised, witnesses) == [raised |-> raised, witnesses |-> witnesses]

LegacyOutcomes == {Outcome(TRUE, << >>)} \cup {Outcome(FALSE, l) : l \in LegacyLists}

\* What bootstrapSemanticRAG can produce: it throws, or returns the witnesses
\* SemanticRAG.search mapped from the search results (text = contentEnglish || '').
SemWitnesses ==
  [tref : Refs, text : {EmptyStr, <<"a">>}, hebrew : {"undefined", "he"}]

RECURSIVE SeqsUpTo(_, _)
SeqsUpTo(S, n) ==
  IF n = 0 THEN {<< >>}
  ELSE LET prev == SeqsUpTo(S, n - 1)
       IN prev \cup {Append(s, x) : s \in {p \in prev : Len(p) = n - 1}, x \in S}

SemanticOutcomes ==
  {Outcome(TRUE, << >>)} \cup {Outcome(FALSE, l) : l \in SeqsUpTo(SemWitnesses, MaxSem)}

TrefsOf(ws) == {ws[i].tref : i \in DOMAIN ws}

\* semantic-rag.ts:208  `semanticResult.witnesses.length >= 2`
GoodEnoughStrict(sem) == Len(sem) > 2
GoodEnough(sem) == Len(sem) >= 2

\* semantic-rag.ts:222-229  combinedWitnesses
MergeNoDedup(sem, leg) == sem \o leg
MergeWitnesses(sem, leg) ==
  sem \o SelectSeq(leg, LAMBDA w : w.tref \notin TrefsOf(sem))

Returned(ws, method) ==
  [returned |-> TRUE, raised |-> FALSE, witnesses |-> ws, searchMethod |-> method]
Raised == [returned |-> FALSE, raised |-> TRUE, witnesses |-> << >>, searchMethod |-> "none"]
Pending == [returned |-> FALSE, raised |-> FALSE, witnesses |-> << >>, searchMethod |-> "none"]

\* semantic-rag.ts:219-250  what the try block returns once both paths returned
ReconcileFlip(sem, leg) ==
  IF Len(sem) > 0 /\ Len(leg) > 0 THEN Returned(MergeWitnesses(sem, leg), "hybrid")
  ELSE IF Len(leg) < Len(sem) THEN Returned(leg, "legacy")
  ELSE Returned(sem, "semantic")
Reconcile(sem, leg) ==
  IF Len(sem) > 0 /\ Len(leg) > 0 THEN Returned(MergeWitnesses(sem, leg), "hybrid")
  ELSE IF Len(leg) > Len(sem) THEN Returned(leg, "legacy")
  ELSE Returned(sem, "semantic")

\* semantic-rag.ts:256-260  what the catch block returns
CatchResultMistagged(sem, leg) == Returned(leg, "hybrid")
CatchResult(sem, leg) == Returned(leg, "legacy")

\* ---------------------------------------------------------------- chunk store
ChunkIds == 1..NumChunks

\* similarities and lexical ranks in 1/1000
Sims == {50, 500, 900}
Ranks == {700}

Min(a, b) == IF a < b THEN a ELSE b

\* content_english of a row: NULL or a string
NullContent == [null |-> TRUE, str |-> EmptyStr]
TextOf(str) == [null |-> FALSE, str |-> str]

\* A row of text_chunks as one query sees it: its content, whether it has an
\* English embedding and the cosine similarity of the query to it, whether
\* its search vector matches the query and the ts_rank it gets.  saveChunks
\* writes content_english and embedding_english independently
\* (database.ts:97-103); the search vector is built from content_english
\* (schema.sql:136-138).
ChunkRows ==
  {[content |-> NullContent, emb |-> TRUE, sim |-> 500, ftm |-> FALSE, rank |-> 0],
   [content |-> NullContent, emb |-> FALSE, sim |-> 0, ftm |-> FALSE, rank |-> 0],
   [content |-> TextOf(<<"a">>), emb |-> FALSE, sim |-> 0, ftm |-> FALSE, rank |-> 0]}
  \cup {[content |-> TextOf(<<"a">>), emb |-> TRUE, sim |-> s, ftm |-> FALSE, rank |-> 0] :
      s \in Sims}
  \cup {[content |-> TextOf(<<"a">>), emb |-> TRUE, sim |-> s, ftm |-> TRUE, rank |-> r] :
      s \in Sims, r \in Ranks}
  \cup {[content |-> TextOf(<<"a">>), emb |-> FALSE, sim |-> 0, ftm |-> TRUE, rank |-> r] :
      r \in Ranks}

\* SearchResult (semantic-search.ts:24-35); the tref of chunk i is reference i
SearchResult(id, content, sim, type, terms) ==
  [chunkId |-> id, tref |-> id, contentEnglish |-> content,
   similarity |-> sim, searchType |-> type, matchedTerms |-> terms]

\* the permutations of a finite set, as sequences
Perms(S) ==
  {f \in [1..Cardinality(S) -> S] : \A i, j \in 1..Cardinality(S) : i # j => f[i] # f[j]}

Prefix(seq, n) == SubSeq(seq, 1, Min(n, Len(seq)))

\* F(x), with x worked out once and then handed to F as a value
Apply(F(_), x) == CHOOSE r \in {F(v) : v \in {x}} : TRUE

\* options.limit || 10
DefaultLimit == 10
EffLimit(limit) == IF limit = 0 THEN DefaultLimit ELSE limit

\* minSimilarity of SemanticRAG.search's default options (0.1)
MinSimilarity == 100

\* database.ts:152-205.  The rows ORDER BY distance LIMIT n can return: every
\* order of the eligible rows that is non-increasing in similarity.
VectorRankings(chunks, limit, minSim) ==
  LET eligible == {i \in ChunkIds : chunks[i].emb /\ (minSim > 0 => chunks[i].sim >= minSim)}
      sorted == {p \in Perms(eligible) :
                   \A k \in 1..(Len(p) - 1) : chunks[p[k]].sim >= chunks[p[k + 1]].sim}
  IN {[k \in 1..Min(limit, Len(p)) |->
         SearchResult(p[k], chunks[p[k]].content, chunks[p[k]].sim, "vector", << >>)] :
        p \in sorted}

\* database.ts:210-263
FulltextRankings(chunks, limit) ==
  LET eligible == {i \in ChunkIds : chunks[i].ftm}
      sorted == {p \in Perms(eligible) :
                   \A k \in 1..(Len(p) - 1) : chunks[p[k]].rank >= chunks[p[k + 1]].rank}
  IN {[k \in 1..Min(limit, Len(p)) |->
         SearchResult(p[k], chunks[p[k]].content, chunks[p[k]].rank, "fulltext", <<"q">>)] :
        p \in sorted}

\* ---------------------------------------------------------------- fusion
\* Map.prototype.set on a map kept as the sequence of its values in
\* insertion order: an existing key keeps its place
RECURSIVE IndexOfId(_, _)
IndexOfId(map, id) ==
  IF map = << >> THEN 0
  ELSE IF map[Len(map)].chunkId = id /\ IndexOfId(SubSeq(map, 1, Len(map) - 1), id) = 0
       THEN Len(map)
       ELSE IndexOfId(SubSeq(map, 1, Len(map) - 1), id)

MapSet(map, r) ==
  LET k == IndexOfId(map, r.chunkId)
  IN IF k = 0 THEN Append(map, r) ELSE [map EXCEPT ![k] = r]

\* Math.min(1.0, existing.similarity * 1.3)
BoostUncapped(s) == (s * 13) \div 10
Boost(s) == Min(1000, (s * 13) \div 10)

\* semantic-search.ts:150-155
RECURSIVE AddVector(_, _)
AddVector(map, vs) ==
  IF vs = << >> THEN map
  ELSE AddVector(MapSet(map, [Head(vs) EXCEPT !.searchType = "vector"]), Tail(vs))

\* semantic-search.ts:158-174
AddOneFulltext(map, r) ==
  LET k == IndexOfId(map, r.chunkId)
  IN IF k # 0
     THEN MapSet(map, [map[k] EXCEPT !.similarity = Boost(map[k].similarity),
                                      !.searchType = "hybrid",
                                      !.matchedTerms = map[k].matchedTerms \o r.matchedTerms])
     ELSE MapSet(map, [r EXCEPT !.searchType = "fulltext"])

RECURSIVE AddFulltext(_, _)
AddFulltext(map, fs) ==
  IF fs = << >> THEN map
  ELSE AddFulltext(AddOneFulltext(map, Head(fs)), Tail(fs))

\* Array.prototype.sort((a, b) => b.similarity - a.similarity): stable
RECURSIVE InsertSorted(_, _)
InsertSorted(sorted, r) ==
  IF sorted = << >> THEN <<r>>
  ELSE IF Head(sorted).similarity >= r.similarity
       THEN <<Head(sorted)>> \o InsertSorted(Tail(sorted), r)
       ELSE <<r>> \o sorted

RECURSIVE SortBySimilarity(_)
SortBySimilarity(rs) ==
  IF rs = << >> THEN << >>
  ELSE InsertSorted(SortBySimilarity(SubSeq(rs, 1, Len(rs) - 1)), rs[Len(rs)])

\* semantic-search.ts:141-179
CombineAndRerank(vectorResults, fulltextResults) ==
  SortBySimilarity(AddFulltext(AddVector(<< >>, vectorResults), fulltextResults))

\* ---------------------------------------------------------------- search cache
\* one row of search_cache (the row of the cache key of the query)
NoEntry == [present |-> FALSE, chunkIds |-> << >>, scores |-> << >>, expires_at |-> 0]

\* INTERVAL '1 hour' in clock ticks of half an hour
CacheTTL == 2

\* database.ts:268-282  `WHERE query_hash = $1 AND expires_at > NOW()`
CachedSearchIgnoringExpiry(entry, t) == entry.present
CachedSearch(entry, t) == entry.present /\ entry.expires_at > t

\* search_cache.scores is REAL[] (schema.sql:95): a JavaScript number (a
\* double, here a multiple of 1/1000) is stored as a 4-byte float, which has
\* fewer mantissa bits (here the multiples of 4/1000), and read back as that
ToReal(s) == (s \div 4) * 4

\* database.ts:284-296
EntryFor(results, t) ==
  [present |-> TRUE,
   chunkIds |-> [k \in 1..Len(results) |-> results[k].chunkId],
   scores |-> [k \in 1..Len(results) |-> ToReal(results[k].similarity)],
   expires_at |-> t + CacheTTL]

\* semantic-search.ts:254-275 with getChunksByIds (database.ts:128-147)
HydrateCachedResultsBlank(chunks, chunkIds, scores) ==
  [k \in 1..Len(chunkIds) |->
     SearchResult(chunkIds[k], NullContent, scores[k], "hybrid", << >>)]
HydrateCachedResults(chunks, chunkIds, scores) ==
  LET all == [k \in 1..Len(chunkIds) |->
                IF chunkIds[k] \in DOMAIN chunks
                THEN SearchResult(chunkIds[k], chunks[chunkIds[k]].content, scores[k],
                                  "hybrid", << >>)
                ELSE SearchResult(0, NullContent, 0, "null", << >>)]
  IN SelectSeq(all, LAMBDA r : r.searchType # "null")

\* ---------------------------------------------------------------- SemanticRAG.search
\* `text: result.contentEnglish || ''`
WitnessText(content) == IF content.null THEN EmptyStr ELSE content.str

\* semantic-rag.ts:72-80 (bootstrapSemanticRAG keeps tref, text, hebrew)
ToWitnesses(results) ==
  [k \in 1..Len(results) |->
     [tref |-> results[k].tref, text |-> WitnessText(results[k].contentEnglish),
      hebrew |-> "undefined"]]

\* ---------------------------------------------------------------- structured index
\* String.prototype.toLowerCase on the characters questions and index
\* entries are made of
LowerChar(c) == IF c = "A" THEN "a" ELSE IF c = "B" THEN "b" ELSE c
ToLowerCaseIdentity(str) == str
ToLowerCase(str) == [i \in 1..Len(str) |-> LowerChar(str[i])]

\* String.prototype.includes
Includes(str, t) == \E i \in 0..(Len(str) - Len(t)) : SubSeq(str, i + 1, i + Len(t)) = t

\* an optional array property of a work (chapters?, parts?)
Absent == [present |-> FALSE, list |-> << >>]
Some(list) == [present |-> TRUE, list |-> list]

\* RamchalChapter and RamchalWork (rag.ts:9-29); tref 0 is an absent tref
Chapter(title, tref, topics) == [title |-> title, tref |-> tref, topics |-> topics]
Work(title, alts, keywords, structure, chapters, parts, tref) ==
  [title |-> title, alternativeTitles |-> alts, keywords |-> keywords,
   structure |-> structure, chapters |-> chapters, parts |-> parts, tref |-> tref]

\* getAllRamchalWorks (rag.ts:47-68): the main works that exist, then the
\* other works; an index is kept as this list and the number of main works
GetAllRamchalWorks(index) == index.works

\* `score += weight` for every term of the list the question includes
RECURSIVE SumTerms(_, _, _)
SumTerms(q, terms, weight) ==
  IF terms = << >> THEN 0
  ELSE (IF Includes(q, ToLowerCase(Head(terms))) THEN weight ELSE 0)
       + SumTerms(q, Tail(terms), weight)

\* rag.ts:102-108
RECURSIVE SumChapterTopics(_, _)
SumChapterTopics(q, chapters) ==
  IF chapters = << >> THEN 0
  ELSE SumTerms(q, Head(chapters).topics, 2) + SumChapterTopics(q, Tail(chapters))

\* rag.ts:112-120
RECURSIVE SumPartTopics(_, _)
SumPartTopics(q, parts) ==
  IF parts = << >> THEN 0
  ELSE SumChapterTopics(q, Head(parts).chapters) + SumPartTopics(q, Tail(parts))

\* rag.ts:79-121: the score of one work
WorkScore(work, question) ==
  LET q == ToLowerCase(question)
  IN (IF Includes(q, ToLowerCase(work.title)) THEN 10 ELSE 0)
     + SumTerms(q, work.alternativeTitles, 8)
     + SumTerms(q, work.keywords, 3)
     + (IF work.chapters.present THEN SumChapterTopics(q, work.chapters.list) ELSE 0)
     + (IF work.parts.present THEN SumPartTopics(q, work.parts.list) ELSE 0)

\* rag.ts:76-126: the local matchedWorks after the loop
RECURSIVE ScoredWorks(_, _)
ScoredWorks(works, question) ==
  IF works = << >> THEN << >>
  ELSE LET score == WorkScore(Head(works), question)
       IN (IF score > 0 THEN <<[work |-> Head(works), score |-> score]>> ELSE << >>)
          \o ScoredWorks(Tail(works), question)

\* Array.prototype.sort((a, b) => b.score - a.score): stable
RECURSIVE InsertByScoreUnstable(_, _)
InsertByScoreUnstable(sorted, x) ==
  IF sorted = << >> THEN <<x>>
  ELSE IF Head(sorted).score > x.score
       THEN <<Head(sorted)>> \o InsertByScoreUnstable(Tail(sorted), x)
       ELSE <<x>> \o sorted
RECURSIVE InsertByScore(_, _)
InsertByScore(sorted, x) ==
  IF sorted = << >> THEN <<x>>
  ELSE IF Head(sorted).score >= x.score
       THEN <<Head(sorted)>> \o InsertByScore(Tail(sorted), x)
       ELSE <<x>> \o sorted

RECURSIVE SortByScore(_)
SortByScore(xs) ==
  IF xs = << >> THEN << >>
  ELSE InsertByScore(SortByScore(SubSeq(xs, 1, Len(xs) - 1)), xs[Len(xs)])

\* rag.ts:129-132
TopWorks(scored) ==
  LET sorted == SortByScore(scored)
  IN Prefix([k \in 1..Len(sorted) |-> sorted[k].work], 3)

\* rag.ts:73-133
FindMatchingWorks(index, question) ==
  TopWorks(ScoredWorks(GetAllRamchalWorks(index), question))

\* rag.ts:143-150
RECURSIVE PartChapters(_)
PartChapters(parts) ==
  IF parts = << >> THEN << >>
  ELSE Head(parts).chapters \o PartChapters(Tail(parts))

AllChapters(work) ==
  IF work.chapters.present THEN work.chapters.list
  ELSE IF work.parts.present THEN PartChapters(work.parts.list)
  ELSE << >>

\* rag.ts:153-171
RECURSIVE ScoredChapters(_, _)
ScoredChapters(chapters, q) ==
  IF chapters = << >> THEN << >>
  ELSE LET score == (IF Includes(q, ToLowerCase(Head(chapters).title)) THEN 15 ELSE 0)
                    + SumTerms(q, Head(chapters).topics, 10)
       IN (IF score > 0 THEN <<[chapter |-> Head(chapters), score |-> score]>> ELSE << >>)
          \o ScoredChapters(Tail(chapters), q)

\* rag.ts:138-178
FindRelevantChapters(work, question) ==
  LET sorted == SortByScore(ScoredChapters(AllChapters(work), ToLowerCase(question)))
  IN Prefix([k \in 1..Len(sorted) |-> sorted[k].chapter], 4)

\* Set.prototype.add on a Set kept as the sequence of its elements in
\* insertion order
SetAddAgain(set, x) == Append(set, x)
SetAdd(set, x) == IF \E i \in 1..Len(set) : set[i] = x THEN set ELSE Append(set, x)

RECURSIVE SetAddAll(_, _)
SetAddAll(set, xs) ==
  IF xs = << >> THEN set
  ELSE Apply(LAMBDA added : SetAddAll(added, Tail(xs)), SetAdd(set, Head(xs)))

TrefsOfChapters(chapters) == [k \in 1..Len(chapters) |-> chapters[k].tref]

\* rag.ts:212-216  parts.slice(0, 2) x chapters.slice(0, 2)
RECURSIVE KeyChapters(_)
KeyChapters(parts) ==
  IF parts = << >> THEN << >>
  ELSE TrefsOfChapters(Prefix(Head(parts).chapters, 2)) \o KeyChapters(Tail(parts))

\* rag.ts:187-221: the references one work adds to witnessRefs, in order
WorkRefs(work, question) ==
  IF work.structure = "simple_chapters" /\ work.chapters.present
  THEN LET relevant == FindRelevantChapters(work, question)
       IN IF Len(relevant) > 0 THEN TrefsOfChapters(relevant)
          ELSE TrefsOfChapters(Prefix(work.chapters.list, 3))
  ELSE IF work.structure = "complex_parts" /\ work.parts.present
  THEN LET relevant == FindRelevantChapters(work, question)
       IN IF Len(relevant) > 0 THEN TrefsOfChapters(relevant)
          ELSE KeyChapters(Prefix(work.parts.list, 2))
  ELSE IF work.tref # 0 THEN <<work.tref>>
  ELSE << >>

RECURSIVE CollectRefs(_, _, _)
CollectRefs(set, works, question) ==
  IF works = << >> THEN set
  ELSE Apply(LAMBDA added : CollectRefs(added, Tail(works), question),
             SetAddAll(set, WorkRefs(Head(works), question)))

\* rag.ts:183-225
GenerateWitnessRefs(matchedWorks, question) ==
  Prefix(CollectRefs(<< >>, matchedWorks, question), 8)

\* Array.prototype.findIndex(ch => ch.tref === baseRef), counted from 1
\* (0 when there is none)
RECURSIVE FindIndex(_, _)
FindIndex(chapters, ref) ==
  IF chapters = << >> THEN 0
  ELSE IF Head(chapters).tref = ref THEN 1
  ELSE LET k == FindIndex(Tail(chapters), ref) IN IF k = 0 THEN 0 ELSE k + 1

\* rag.ts:240-245: the chapters at offsets -2..2 except 0 that exist
AdjacentNarrow(chapters, idx) ==
  LET at(o) == IF idx + o >= 1 /\ idx + o <= Len(chapters)
               THEN <<chapters[idx + o].tref>> ELSE << >>
  IN at(-1) \o at(1)
Adjacent(chapters, idx) ==
  LET at(o) == IF idx + o >= 1 /\ idx + o <= Len(chapters)
               THEN <<chapters[idx + o].tref>> ELSE << >>
  IN at(-2) \o at(-1) \o at(1) \o at(2)

\* rag.ts:236-247: the loop over baseRefs for one work
RECURSIVE AddAround(_, _, _)
AddAround(set, chapters, baseRefs) ==
  IF baseRefs = << >> THEN set
  ELSE LET idx == FindIndex(chapters, Head(baseRefs))
       IN Apply(LAMBDA added : AddAround(added, chapters, Tail(baseRefs)),
                IF idx > 0 THEN SetAddAll(set, Adjacent(chapters, idx)) ELSE set)

\* rag.ts:233-249
RECURSIVE AddAdjacentOfWorks(_, _, _)
AddAdjacentOfWorks(set, works, baseRefs) ==
  IF works = << >> THEN set
  ELSE Apply(LAMBDA added : AddAdjacentOfWorks(added, Tail(works), baseRefs),
             IF Head(works).structure = "simple_chapters" /\ Head(works).chapters.present
             THEN AddAround(set, Head(works).chapters.list, baseRefs) ELSE set)

\* rag.ts:230-252
AddAdjacentChapters(baseRefs, matchedWorks) ==
  Prefix(AddAdjacentOfWorks(SetAddAll(<< >>, baseRefs), matchedWorks, baseRefs), 12)

\* rag.ts:262-266: the main works that exist
DefaultWorks(index) == Prefix(index.works, index.mains)

\* ---- questions and indexes
QChars == {"a", "B"}
Questions == SeqsUpTo(QChars, MaxQuestion)

\* works that differ in what the matcher scores
NoTitle == <<"c">>
ScoreWorks ==
  {Work(<<"a">>, << >>, << >>, "single", Absent, Absent, 1),
   Work(<<"A", "b">>, << >>, <<<<"b">>>>, "single", Absent, Absent, 2),
   Work(NoTitle, <<<<"B">>, <<"b">>>>, << >>, "single", Absent, Absent, 3),
   Work(NoTitle, << >>, <<<<"a">>, <<"a", "B">>>>, "single", Absent, Absent, 4),
   Work(NoTitle, << >>, << >>, "simple_chapters",
        Some(<<Chapter(NoTitle, 51, <<<<"a">>>>),
               Chapter(NoTitle, 52, <<<<"b">>, <<"A">>>>)>>), Absent, 0),
   Work(NoTitle, << >>, << >>, "complex_parts",
        Some(<<Chapter(NoTitle, 61, <<<<"b">>>>)>>),
        Some(<<[number |-> 1, title |-> NoTitle,
                chapters |-> <<Chapter(NoTitle, 62, <<<<"a">>, <<"b">>>>)>>],
               [number |-> 2, title |-> NoTitle,
                chapters |-> <<Chapter(NoTitle, 63, <<<<"b", "b">>>>)>>]>>), 0)}

ScoreIndexes == [works : SeqsUpTo(ScoreWorks, MaxWorks), mains : {0}]

\* works that differ in their chapters; the work at place p of the index
\* has the references 10 * p + 1, 10 * p + 2, ...
ChapterRef(p, k) == 10 * p + k

ChapterTitle(k) == IF k = 3 THEN <<"a", "a">> ELSE NoTitle
ChapterTopics(k) ==
  IF k = 1 THEN <<<<"b">>>>
  ELSE IF k = 3 THEN <<<<"a", "b">>>>
  ELSE IF k = 5 THEN <<<<"b", "b">>>>
  ELSE <<<<"c">>>>

SimpleWork(p, n) ==
  Work(NoTitle, << >>, <<<<"a">>>>, "simple_chapters",
       Some([k \in 1..n |-> Chapter(ChapterTitle(k), ChapterRef(p, k), ChapterTopics(k))]),
       Absent, 0)

ComplexWork(p) ==
  Work(NoTitle, << >>, <<<<"a">>>>, "complex_parts", Absent,
       Some([m \in 1..3 |->
               [number |-> m, title |-> NoTitle,
                chapters |-> [k \in 1..3 |->
                   Chapter(IF m = 2 /\ k = 3 THEN <<"b">> ELSE NoTitle,
                           ChapterRef(p, 3 * (m - 1) + k),
                           IF m = 3 /\ k = 3 THEN <<<<"b", "a">>>> ELSE <<<<"c">>>>)]]]),
       0)

\* a work without chapters whose reference is the first chapter of the
\* work at place 1
PlainWork == Work(NoTitle, << >>, <<<<"a">>>>, "single", Absent, Absent, ChapterRef(1, 1))

WorksAt(p) == {SimpleWork(p, n) : n \in 1..MaxChapters} \cup {ComplexWork(p), PlainWork}

RECURSIVE WorkListsUpTo(_)
WorkListsUpTo(n) ==
  IF n = 0 THEN {<< >>}
  ELSE LET prev == WorkListsUpTo(n - 1)
       IN prev \cup {Append(ws, w) : ws \in {l \in prev : Len(l) = n - 1}, w \in WorksAt(n)}

\* an index: its works, of which the first `mains` are the main works
\* (mesillat_yesharim, derekh_hashem, daat_tevunot) that exist
GuessIndexes ==
  UNION {{[works |-> ws, mains |-> m] : m \in 0..Min(3, Len(ws))} :
           ws \in WorkListsUpTo(MaxGuessWorks)}

\* ---------------------------------------------------------------- verifyAnswer
\* the character classes of the two regular expressions, on the characters
\* answers and annotations are made of
IsEnd(c) == c \in {".", "!", "?"}
IsSpace(c) == c = " "
IsUpper(c) == c \in {"A", "N"}

\* String.prototype.trim of the piece from..to of s, as a span of s
RECURSIVE TrimStart(_, _, _)
TrimStart(s, from, to) ==
  IF from <= to /\ IsSpace(s[from]) THEN TrimStart(s, from + 1, to) ELSE from
RECURSIVE TrimEnd(_, _, _)
TrimEnd(s, from, to) ==
  IF from <= to /\ IsSpace(s[to]) THEN TrimEnd(s, from, to - 1) ELSE to
TrimSpan(s, span) ==
  LET from == TrimStart(s, span.from, span.to)
  IN [from |-> from, to |-> TrimEnd(s, from, span.to)]

\* the matches of /(?<=[.!?])\s+(?=[A-Z])/: the runs of white space i..j
\* that follow an end mark and are followed by a capital letter
Separators(s) ==
  {ij \in (1..Len(s)) \X (1..Len(s)) :
     /\ ij[1] > 1
     /\ ij[1] <= ij[2]
     /\ ij[2] < Len(s)
     /\ IsEnd(s[ij[1] - 1])
     /\ \A k \in ij[1]..ij[2] : IsSpace(s[k])
     /\ IsUpper(s[ij[2] + 1])}

\* String.prototype.split: the pieces between the separators, as spans
RECURSIVE SplitFrom(_, _)
SplitFrom(s, start) ==
  LET later == {ij \in Separators(s) : ij[1] >= start}
  IN IF later = {}
     THEN <<[from |-> start, to |-> Len(s)]>>
     ELSE LET ij == CHOOSE x \in later : \A y \in later : x[1] <= y[1]
          IN <<[from |-> start, to |-> ij[1] - 1]>> \o SplitFrom(s, ij[2] + 1)

RECURSIVE NonEmptySpans(_)
NonEmptySpans(spans) ==
  IF spans = << >> THEN << >>
  ELSE (IF Head(spans).from <= Head(spans).to THEN <<Head(spans)>> ELSE << >>)
       \o NonEmptySpans(Tail(spans))

\* rag.ts:353-356: split, trim every piece, drop the empty ones
SentenceSpans(answer) ==
  LET pieces == SplitFrom(answer, 1)
  IN NonEmptySpans([k \in 1..Len(pieces) |-> TrimSpan(answer, pieces[k])])

\* the first ")" after place pos (0 when there is none)
RECURSIVE FirstClose(_, _)
FirstClose(t, pos) ==
  IF pos > Len(t) THEN 0
  ELSE IF t[pos] = ")" THEN pos ELSE FirstClose(t, pos + 1)

\* sentence.match(/\(([^)]+)\)/g) with the parentheses removed: scanning
\* from the left, a "(" and everything up to the next ")", at least one
\* character between them; the scan goes on after the ")"
RECURSIVE TrefMatches(_, _)
TrefMatches(t, pos) ==
  IF pos > Len(t) THEN << >>
  ELSE IF t[pos] # "(" THEN TrefMatches(t, pos + 1)
  ELSE LET q == FirstClose(t, pos + 1)
       IN IF q = 0 \/ q = pos + 1 THEN TrefMatches(t, pos + 1)
          ELSE <<SubSeq(t, pos + 1, q - 1)>> \o TrefMatches(t, q + 1)

\* rag.ts:350
ValidTrefs(witnesses) == {witnesses[k].tref : k \in 1..Len(witnesses)}

\* the warning sign (U+26A0 U+FE0F) and the annotation
WarningMarker == <<"U+26A0", "U+FE0F">>
NeedsSource == <<" ", "(", "N", "e", "e", "d", "s", " ", "s", "o", "u", "r", "c", "e", ")">>
Flagged(sentence) == WarningMarker \o <<" ">> \o sentence \o NeedsSource

HasOnlyValidTrefs(matches, valid) ==
  Len(matches) > 0 /\ \A k \in 1..Len(matches) : matches[k] \in valid
HasValidTref(matches, valid) == \E k \in 1..Len(matches) : matches[k] \in valid

\* rag.ts:360-383: one sentence
VerifySentence(answer, span, valid) ==
  LET sentence == SubSeq(answer, span.from, span.to)
      sourced == HasValidTref(TrefMatches(sentence, 1), valid)
  IN [from |-> span.from, to |-> span.to, sentence |-> sentence, sourced |-> sourced,
      verified |-> IF sourced THEN sentence ELSE Flagged(sentence)]

\* rag.ts:360-383: the local verifiedSentences, with what was decided
VerifiedSentences(answer, witnesses) ==
  IF Len(Trim(answer)) = 0 THEN << >>
  ELSE LET spans == SentenceSpans(answer)
       IN [k \in 1..Len(spans) |-> VerifySentence(answer, spans[k], ValidTrefs(witnesses))]

\* rag.ts:339-392
VerifyAnswer(answer, witnesses) ==
  IF Len(Trim(answer)) = 0
  THEN [originalAnswer |-> answer, verifiedAnswer |-> answer,
        unsourcedSentences |-> 0, totalSentences |-> 0]
  ELSE LET vs == VerifiedSentences(answer, witnesses)
       IN [originalAnswer |-> answer,
           verifiedAnswer |-> JoinSpace([k \in 1..Len(vs) |-> vs[k].verified]),
           unsourcedSentences |-> Cardinality({k \in 1..Len(vs) : ~vs[k].sourced}),
           totalSentences |-> Len(vs)]

\* ---- answers and witnesses
AnswerChars == {"(", ")", "A", ".", " "}
Answers == SeqsUpTo(AnswerChars, MaxAnswer)
WitnessLists ==
  {<<[tref |-> <<"A">>]>>,
   <<[tref |-> <<"a">>], [tref |-> <<"A", "A">>]>>}

NoVerification ==
  [originalAnswer |-> << >>, verifiedAnswer |-> << >>,
   unsourcedSentences |-> 0, totalSentences |-> 0]

\* ---------------------------------------------------------------- TextChunkDB.saveChunks
\* a TextChunk as far as the statement of database.ts:71-86 goes: its tref
\* and the columns the statement sets
SaveChunk(tref, content) == [tref |-> tref, content |-> content]
ChunkTrefs == {1, 2}
ChunkContents == {"x", "y"}
SaveChunks == {SaveChunk(t, c) : t \in ChunkTrefs, c \in ChunkContents}
Batches == SeqsUpTo(SaveChunks, MaxBatch)

\* the first row of the table with the tref (0 when there is none)
RECURSIVE RowOfTref(_, _, _)
RowOfTref(rows, tref, k) ==
  IF k > Len(rows) THEN 0
  ELSE IF rows[k].tref = tref THEN k ELSE RowOfTref(rows, tref, k + 1)

\* INSERT ... ON CONFLICT (tref) DO UPDATE SET ... on a table with a unique
\* index on tref: the row with the tref is updated, or a row is added
Upsert(rows, chunk) ==
  LET k == RowOfTref(rows, chunk.tref, 1)
  IN IF k = 0 THEN Append(rows, chunk)
     ELSE [rows EXCEPT ![k] = [@ EXCEPT !.content = chunk.content]]

\* ROLLBACK: the table other connections see stays what it was, whatever
\* the transaction wrote
RolledBackPartly(committed, tx) == tx
RolledBack(committed, tx) == committed

\* ---------------------------------------------------------------- concurrent cache writers
Searchers == 1..NumSearchers

\* result lists two searches with one cache key can have computed (the
\* store may have changed between them)
ScoredResult(id, sim) == SearchResult(id, TextOf(<<"a">>), sim, "vector", << >>)
ResultLists ==
  {<<ScoredResult(1, 500)>>,
   <<ScoredResult(2, 900)>>,
   <<ScoredResult(2, 900), ScoredResult(1, 500)>>}

\* database.ts:290-294: one statement, INSERT ... ON CONFLICT (query_hash)
\* DO UPDATE SET chunk_ids, scores, expires_at; query_hash is UNIQUE
\* (schema.sql:92). rows are the rows of search_cache with the key
CacheUpsertMixed(rows, entry) ==
  IF rows = << >> THEN <<entry>> ELSE <<[rows[1] EXCEPT !.chunkIds = entry.chunkIds]>>
CacheUpsert(rows, entry) ==
  IF rows = << >> THEN <<entry>> ELSE <<entry>> \o Tail(rows)

\* ---------------------------------------------------------------- TextChunker
\* \s on the characters texts are made of
WhiteSpace == {" ", "\n"}
\* [.!?] and the Hebrew end marks
EndMarks == {".", "!", "?"}

\* the last place of the run of characters of the class that starts at
\* place i (i - 1 when s[i] is not of the class)
RECURSIVE RunEnd(_, _, _)
RunEnd(s, i, class) ==
  IF i <= Len(s) /\ s[i] \in class THEN RunEnd(s, i + 1, class) ELSE i - 1

\* String.prototype.trim
RECURSIVE TrimWsLeft(_)
TrimWsLeft(s) ==
  IF s # << >> /\ Head(s) \in WhiteSpace THEN TrimWsLeft(Tail(s)) ELSE s
RECURSIVE TrimWsRight(_)
TrimWsRight(s) ==
  IF s # << >> /\ s[Len(s)] \in WhiteSpace
  THEN TrimWsRight(SubSeq(s, 1, Len(s) - 1)) ELSE s
TrimWs(s) == TrimWsRight(TrimWsLeft(s))

\* replace(/\s+/g, ' ')
RECURSIVE CollapseWhiteSpace(_, _)
CollapseWhiteSpace(s, i) ==
  IF i > Len(s) THEN << >>
  ELSE IF s[i] \in WhiteSpace
       THEN <<" ">> \o CollapseWhiteSpace(s, RunEnd(s, i, WhiteSpace) + 1)
       ELSE <<s[i]>> \o CollapseWhiteSpace(s, i + 1)

\* replace(/\n{3,}/g, '\n\n')
RECURSIVE LimitNewlines(_, _)
LimitNewlines(s, i) ==
  IF i > Len(s) THEN << >>
  ELSE IF s[i] = "\n" /\ RunEnd(s, i, {"\n"}) >= i + 2
       THEN <<"\n", "\n">> \o LimitNewlines(s, RunEnd(s, i, {"\n"}) + 1)
       ELSE <<s[i]>> \o LimitNewlines(s, i + 1)

\* part_004:462-467
NormalizeText(text) ==
  Apply(TrimWs, Apply(LAMBDA s : LimitNewlines(s, 1), CollapseWhiteSpace(text, 1)))

\* the last "\n" among the places from..to (0 when there is none)
RECURSIVE LastNewline(_, _, _)
LastNewline(s, from, to) ==
  IF to < from THEN 0
  ELSE IF s[to] = "\n" THEN to ELSE LastNewline(s, from, to - 1)

\* where the match of the separator that starts at place i ends (0 when
\* none starts there):
\*   "paragraph"  /\n\s*\n/      "english"  /[.!?]+\s+/      "hebrew"  /[.!?...]/
MatchEnd(kind, s, i) ==
  IF kind = "paragraph"
  THEN IF s[i] = "\n" THEN LastNewline(s, i + 1, RunEnd(s, i + 1, WhiteSpace)) ELSE 0
  ELSE IF kind = "english"
  THEN IF s[i] \in EndMarks
       THEN LET j == RunEnd(s, i, EndMarks)
                k == RunEnd(s, j + 1, WhiteSpace)
            IN IF k > j THEN k ELSE 0
       ELSE 0
  ELSE IF s[i] \in EndMarks THEN i ELSE 0

\* String.prototype.split with the separator: the pieces between the matches
RECURSIVE SplitBy(_, _, _, _)
SplitBy(kind, s, from, i) ==
  IF i > Len(s) THEN <<SubSeq(s, from, Len(s))>>
  ELSE LET e == MatchEnd(kind, s, i)
       IN IF e = 0 THEN SplitBy(kind, s, from, i + 1)
          ELSE <<SubSeq(s, from, i - 1)>> \o SplitBy(kind, s, e + 1, e + 1)

\* part_004:508-516
SplitBySentences(text, language) ==
  Apply(LAMBDA sentences : SelectSeq(sentences, LAMBDA piece : TrimWs(piece) # << >>),
        SplitBy(language, text, 1, 1))

\* part_004:484-501: the loop over the sentences of a long paragraph
RECURSIVE Accumulate(_, _, _, _)
Accumulate(sentences, currentChunk, chunks, max) ==
  IF sentences = << >>
  THEN IF TrimWs(currentChunk) # << >> THEN Append(chunks, TrimWs(currentChunk)) ELSE chunks
  ELSE LET sentence == Head(sentences)
       IN IF Len(currentChunk) + Len(sentence) > max
          THEN IF currentChunk # << >>
               THEN Accumulate(Tail(sentences), sentence,
                               Append(chunks, TrimWs(currentChunk)), max)
               ELSE Accumulate(Tail(sentences), << >>, Append(chunks, TrimWs(sentence)), max)
          ELSE Accumulate(Tail(sentences),
                          currentChunk \o (IF currentChunk # << >> THEN <<" ">> ELSE << >>)
                            \o sentence,
                          chunks, max)

\* part_004:475-503: the loop over the paragraphs
RECURSIVE ChunksOfParagraphs(_, _, _, _)
ChunksOfParagraphs(paragraphs, language, max, chunks) ==
  IF paragraphs = << >> THEN chunks
  ELSE LET paragraph == Head(paragraphs)
           rest == Tail(paragraphs)
       IN IF TrimWs(paragraph) = << >> THEN ChunksOfParagraphs(rest, language, max, chunks)
          ELSE IF Len(paragraph) <= max
          THEN ChunksOfParagraphs(rest, language, max, Append(chunks, TrimWs(paragraph)))
          ELSE ChunksOfParagraphs(rest, language, max,
                 Apply(LAMBDA sentences : Accumulate(sentences, << >>, chunks, max),
                       SplitBySentences(paragraph, language)))

\* part_004:469-506
SplitByBoundaries(text, language, max) ==
  Apply(LAMBDA paragraphs : ChunksOfParagraphs(paragraphs, language, max, << >>),
        SplitBy("paragraph", text, 1, 1))

\* result.push on the list of pieces, of which the first MaxPieces are kept
PushPiece(result, piece) ==
  IF Len(result) < MaxPieces THEN Append(result, piece) ELSE result

\* part_004:530  start = end - this.options.overlapSize
NextStart(end, overlap, len) == end - overlap

\* ---- texts and options
TextChars == {"a", ".", " ", "\n"}
Texts == SeqsUpTo(TextChars, MaxText)
Languages == {"english", "hebrew"}

\* ---------------------------------------------------------------- state
VARIABLES
  fw_pc,         \* fetchWitnesses: "idle" | "loop" | "returned"
  fw_refs,       \* its argument
  fw_i,          \* number of references processed
  fw_witnesses,  \* the local `witnesses`
  fw_log,        \* the response each processed reference got
  rc_pc,         \* hybridBootstrapRAG: "idle" | "start" | "legacy" | "catch" | "done"
  rc_sem,        \* outcome of bootstrapSemanticRAG
  rc_leg,        \* outcomes of the calls of legacyBootstrapRAG, in order
  rc_result,     \* what the call returned or raised
  db_chunks,     \* text_chunks: chunk id -> row
  db_cache,      \* search_cache: the row of the query's cache key
  now,           \* the clock
  se_pc,         \* SemanticSearchEngine.search: "idle" | "searching" | "done"
  se_opts,       \* its options: limit (0 = not given) and useHybridSearch
  se_vec,        \* the vectorSearch promise
  se_ft,         \* the fulltextSearch promise
  se_out,        \* what search returned or raised
  sr_out,        \* what SemanticRAG.search returned or raised
  h_cached,      \* history: the results the last successful cache write was given
  db_writes,     \* number of saveChunks calls so far
  fu_pc,         \* combineAndRerank: "off" | "called" | "returned"
  fu_vec,        \* its argument vectorResults
  fu_ft,         \* its argument fulltextResults
  fu_out,        \* the list it returned
  gr_pc,         \* generateGuessRefs: "off" | "called" | "matched" | "based" | "returned"
  gr_question,   \* its argument
  gr_index,      \* ramchalIndex
  gr_scored,     \* the local matchedWorks of findMatchingWorks, with the scores
  gr_matched,    \* what findMatchingWorks returned
  gr_base,       \* baseRefs
  gr_out,        \* what generateGuessRefs returned
  va_pc,         \* verifyAnswer: "off" | "called" | "verified" | "reverified"
  va_answer,     \* its argument answer
  va_witnesses,  \* its argument witnesses
  va_sentences,  \* the local verifiedSentences, with each sentence and its verdict
  va_result,     \* what it returned
  va_sentences2, \* verifiedSentences of the call on the first call's verifiedAnswer
  va_result2,    \* what that call returned
  tc_rows,       \* text_chunks as other connections see it: the committed rows
  tc_unique,     \* whether the database has a unique index on text_chunks(tref)
  sc_pc,         \* saveChunks: "off" | "idle" | "connect" | "begin" | "loop" | "catch" | "finally" | "returned"
  sc_chunks,     \* its argument
  sc_i,          \* number of chunks whose statement succeeded
  sc_tx,         \* text_chunks as the transaction sees it
  sc_result,     \* "none" | "ok" | "raised"
  sc_client,     \* the pool client: "none" | "held" | "released"
  sc_fault,      \* history: why the call raised: "none" | "environment" | "no unique index"
  sc_before,     \* history: the committed rows when the call started
  sc_calls,      \* number of calls started
  hy_pc,         \* hybridSearch: "off" | "called" | "awaiting" | "returned"
  hy_chunks,     \* text_chunks: chunk id -> row
  hy_limit,      \* options.limit (0 = not given)
  hy_asked,      \* the limit the vector and the lexical search were called with
  hy_vec,        \* the vectorSearch promise
  hy_ft,         \* the fulltextSearch promise
  hy_order,      \* history: the searches in the order they settled
  hy_out,        \* what hybridSearch returned or raised
  cc_rows,       \* search_cache: the rows with the cache key
  cc_pc,         \* searcher -> "lookup" | "searching" | "done"
  cc_results,    \* searcher -> the results it computed
  cc_wrote,      \* history: the searchers in the order their cache writes took effect
  cc_seen,       \* history: the (chunkIds, scores) the cache lookups returned
  cc_reads,      \* number of lookups by other readers
  ck_pc,         \* chunkText: "off" | "idle" | "called" | "chunks" | "while" | "returned"
  ck_text,       \* its argument text
  ck_language,   \* its argument language
  ck_max,        \* options.maxChunkLength
  ck_overlap,    \* options.overlapSize
  ck_chunks,     \* what splitByBoundaries returned
  ck_k,          \* handleOversizedChunks: number of chunks done
  ck_start,      \* the local start of the while loop
  ck_result,     \* the local result
  ck_turn        \* the turns the while loops have taken, modulo 2

fwVars == <<fw_pc, fw_refs, fw_i, fw_witnesses, fw_log>>
rcVars == <<rc_pc, rc_sem, rc_leg, rc_result>>
seVars == <<db_chunks, db_cache, now, se_pc, se_opts, se_vec, se_ft, se_out, sr_out, h_cached,
           db_writes>>
fuVars == <<fu_pc, fu_vec, fu_ft, fu_out>>
grVars == <<gr_pc, gr_question, gr_index, gr_scored, gr_matched, gr_base, gr_out>>
vaVars == <<va_pc, va_answer, va_witnesses, va_sentences, va_result, va_sentences2, va_result2>>
scVars == <<tc_rows, tc_unique, sc_pc, sc_chunks, sc_i, sc_tx, sc_result, sc_client, sc_fault, sc_before, sc_calls>>
hyVars == <<hy_pc, hy_chunks, hy_limit, hy_asked, hy_vec, hy_ft, hy_order, hy_out>>
ccVars == <<cc_rows, cc_pc, cc_results, cc_wrote, cc_seen, cc_reads>>
ckVars == <<ck_pc, ck_text, ck_language, ck_max, ck_overlap, ck_chunks, ck_k, ck_start, ck_result, ck_turn>>
vars == <<fw_pc, fw_refs, fw_i, fw_witnesses, fw_log, rc_pc, rc_sem, rc_leg, rc_result,
          db_chunks, db_cache, now, se_pc, se_opts, se_vec, se_ft, se_out, sr_out,
          h_cached, db_writes, fu_pc, fu_vec, fu_ft, fu_out,
          gr_pc, gr_question, gr_index, gr_scored, gr_matched, gr_base, gr_out,
          va_pc, va_answer, va_witnesses, va_sentences, va_result, va_sentences2, va_result2,
          tc_rows, tc_unique, sc_pc, sc_chunks, sc_i, sc_tx, sc_result, sc_client, sc_fault, sc_before, sc_calls,
          hy_pc, hy_chunks, hy_limit, hy_asked, hy_vec, hy_ft, hy_order, hy_out,
          cc_rows, cc_pc, cc_results, cc_wrote, cc_seen, cc_reads,
          ck_pc, ck_text, ck_language, ck_max, ck_overlap, ck_chunks, ck_k, ck_start, ck_result, ck_turn>>

FetchIdle ==
  /\ fw_pc = "idle"
  /\ fw_refs = << >>
  /\ fw_i = 0
  /\ fw_witnesses = << >>
  /\ fw_log = << >>

RecIdle ==
  /\ rc_pc = "idle"
  /\ rc_sem = Outcome(FALSE, << >>)
  /\ rc_leg = << >>
  /\ rc_result = Pending

PendingPromise == [state |-> "pending", reason |-> "none", rows |-> << >>]
NotStarted == [state |-> "none", reason |-> "none", rows |-> << >>]
Fulfilled(rows) == [state |-> "fulfilled", reason |-> "none", rows |-> rows]
Rejected(reason) == [state |-> "rejected", reason |-> reason, rows |-> << >>]

NoAnalytics == [totalResults |-> 0, vectorResults |-> 0, fulltextResults |-> 0, cacheHit |-> FALSE]
SePending == [returned |-> FALSE, raised |-> FALSE, results |-> << >>, analytics |-> NoAnalytics]
SrPending == [returned |-> FALSE, raised |-> FALSE, witnesses |-> << >>]

SearchIdle ==
  /\ db_chunks = << >>
  /\ db_cache = NoEntry
  /\ now = 0
  /\ se_pc = "off"
  /\ se_opts = [limit |-> 0, useHybridSearch |-> TRUE]
  /\ se_vec = NotStarted
  /\ se_ft = NotStarted
  /\ se_out = SePending
  /\ sr_out = SrPending
  /\ h_cached = << >>
  /\ db_writes = 0

FusionIdle ==
  /\ fu_pc = "off"
  /\ fu_vec = << >>
  /\ fu_ft = << >>
  /\ fu_out = << >>

GuessIdle ==
  /\ gr_pc = "off"
  /\ gr_question = << >>
  /\ gr_index = [works |-> << >>, mains |-> 0]
  /\ gr_scored = << >>
  /\ gr_matched = << >>
  /\ gr_base = << >>
  /\ gr_out = << >>

VerifyIdle ==
  /\ va_pc = "off"
  /\ va_answer = << >>
  /\ va_witnesses = << >>
  /\ va_sentences = << >>
  /\ va_result = NoVerification
  /\ va_sentences2 = << >>
  /\ va_result2 = NoVerification

SaveIdle ==
  /\ tc_rows = << >>
  /\ tc_unique = FALSE
  /\ sc_pc = "off"
  /\ sc_chunks = << >>
  /\ sc_i = 0
  /\ sc_tx = << >>
  /\ sc_result = "none"
  /\ sc_client = "none"
  /\ sc_fault = "none"
  /\ sc_before = << >>
  /\ sc_calls = 0

NotAsked == [vector |-> 0, fulltext |-> 0]
HyPending == [returned |-> FALSE, raised |-> FALSE, results |-> << >>]

HybridIdle ==
  /\ hy_pc = "off"
  /\ hy_chunks = << >>
  /\ hy_limit = 0
  /\ hy_asked = NotAsked
  /\ hy_vec = NotStarted
  /\ hy_ft = NotStarted
  /\ hy_order = << >>
  /\ hy_out = HyPending

WritersIdle ==
  /\ cc_rows = << >>
  /\ cc_pc = << >>
  /\ cc_results = << >>
  /\ cc_wrote = << >>
  /\ cc_seen = << >>
  /\ cc_reads = 0

ChunkerIdle ==
  /\ ck_pc = "off"
  /\ ck_text = << >>
  /\ ck_language = "english"
  /\ ck_max = 1
  /\ ck_overlap = 0
  /\ ck_chunks = << >>
  /\ ck_k = 0
  /\ ck_start = 0
  /\ ck_result = << >>
  /\ ck_turn = 0

\* ---------------------------------------------------------------- fetchWitnesses
FetchInit ==
  /\ fw_pc = "loop"
  /\ fw_refs \in RefLists
  /\ fw_i = 0
  /\ fw_witnesses = << >>
  /\ fw_log = << >>
  /\ RecIdle
  /\ SearchIdle
  /\ FusionIdle
  /\ GuessIdle
  /\ VerifyIdle
  /\ SaveIdle
  /\ HybridIdle
  /\ WritersIdle
  /\ ChunkerIdle

\* one iteration: await getTextV3(ref), then the try body or the catch
FetchStep ==
  /\ fw_pc = "loop"
  /\ fw_i < Len(fw_refs)
  /\ \E resp \in Responses :
       /\ fw_witnesses' = FetchOne(fw_witnesses, fw_refs[fw_i + 1], resp)
       /\ fw_log' = Append(fw_log, resp)
  /\ fw_i' = fw_i + 1
  /\ UNCHANGED <<fw_pc, fw_refs>>
  /\ UNCHANGED <<rcVars, seVars, fuVars, grVars, vaVars, scVars, hyVars, ccVars, ckVars>>

\* the loop is exhausted: return witnesses
FetchReturn ==
  /\ fw_pc = "loop"
  /\ fw_i = Len(fw_refs)
  /\ fw_pc' = "returned"
  /\ UNCHANGED <<fw_refs, fw_i, fw_witnesses, fw_log>>
  /\ UNCHANGED <<rcVars, seVars, fuVars, grVars, vaVars, scVars, hyVars, ccVars, ckVars>>

FetchNext == FetchStep \/ FetchReturn

SpecFetch == FetchInit /\ [][FetchNext]_vars

\* ---------------------------------------------------------------- hybridBootstrapRAG
RecInit ==
  /\ rc_pc = "start"
  /\ rc_sem = Outcome(FALSE, << >>)
  /\ rc_leg = << >>
  /\ rc_result = Pending
  /\ FetchIdle
  /\ SearchIdle
  /\ FusionIdle
  /\ GuessIdle
  /\ VerifyIdle
  /\ SaveIdle
  /\ HybridIdle
  /\ WritersIdle
  /\ ChunkerIdle

\* lines 203-216: await bootstrapSemanticRAG(question), then the >= 2 test
RecSemantic ==
  /\ rc_pc = "start"
  /\ \E out \in SemanticOutcomes :
       /\ rc_sem' = out
       /\ IF out.raised
          THEN rc_pc' = "catch" /\ UNCHANGED rc_result
          ELSE IF GoodEnough(out.witnesses)
               THEN rc_pc' = "done" /\ rc_result' = Returned(out.witnesses, "semantic")
               ELSE rc_pc' = "legacy" /\ UNCHANGED rc_result
  /\ UNCHANGED rc_leg
  /\ UNCHANGED <<fwVars, seVars, fuVars, grVars, vaVars, scVars, hyVars, ccVars, ckVars>>

\* lines 217-250: await legacyBootstrapRAG(question) inside the try, then
\* merge or pick; a throw of the legacy function lands in the catch
RecLegacyFallback ==
  /\ rc_pc = "legacy"
  /\ \E out \in LegacyOutcomes :
       /\ rc_leg' = Append(rc_leg, out)
       /\ IF out.raised
          THEN rc_pc' = "catch" /\ UNCHANGED rc_result
          ELSE rc_pc' = "done" /\ rc_result' = Reconcile(rc_sem.witnesses, out.witnesses)
  /\ UNCHANGED rc_sem
  /\ UNCHANGED <<fwVars, seVars, fuVars, grVars, vaVars, scVars, hyVars, ccVars, ckVars>>

\* lines 252-261: the catch block calls legacyBootstrapRAG(question) and
\* returns its result; a throw here leaves the function
RecCatch ==
  /\ rc_pc = "catch"
  /\ \E out \in LegacyOutcomes :
       /\ rc_leg' = Append(rc_leg, out)
       /\ rc_result' = IF out.raised THEN Raised
                       ELSE CatchResult(rc_sem.witnesses, out.witnesses)
  /\ rc_pc' = "done"
  /\ UNCHANGED rc_sem
  /\ UNCHANGED <<fwVars, seVars, fuVars, grVars, vaVars, scVars, hyVars, ccVars, ckVars>>

RecNext == RecSemantic \/ RecLegacyFallback \/ RecCatch

SpecRec == RecInit /\ [][RecNext]_vars

\* ---------------------------------------------------------------- SemanticSearchEngine.search
SearchInit ==
  /\ db_chunks \in [ChunkIds -> ChunkRows]
  /\ db_cache = NoEntry
  /\ now = 0
  /\ se_pc = "idle"
  /\ se_opts \in [limit : 0..MaxLimit, useHybridSearch : BOOLEAN]
  /\ se_vec = NotStarted
  /\ se_ft = NotStarted
  /\ se_out = SePending
  /\ sr_out = SrPending
  /\ h_cached = << >>
  /\ db_writes = 0
  /\ FetchIdle
  /\ RecIdle
  /\ FusionIdle
  /\ GuessIdle
  /\ VerifyIdle
  /\ SaveIdle
  /\ HybridIdle
  /\ WritersIdle
  /\ ChunkerIdle

Count(results, type) == Cardinality({k \in 1..Len(results) : results[k].searchType = type})

SeReturnedCounting(results, hit) ==
  [returned |-> TRUE, raised |-> FALSE, results |-> results,
   analytics |-> [totalResults |-> Len(results),
                  vectorResults |-> IF hit THEN Len(results) ELSE Count(results, "vector"),
                  fulltextResults |-> IF hit THEN 0 ELSE Count(results, "fulltext"),
                  cacheHit |-> hit]]
SeReturned(results, hit) ==
  [returned |-> TRUE, raised |-> FALSE, results |-> results,
   analytics |-> [totalResults |-> Len(results),
                  vectorResults |-> IF hit THEN 0 ELSE Count(results, "vector"),
                  fulltextResults |-> IF hit THEN 0 ELSE Count(results, "fulltext"),
                  cacheHit |-> hit]]
SeRaised == [returned |-> FALSE, raised |-> TRUE, results |-> << >>, analytics |-> NoAnalytics]

SrReturned(results) == [returned |-> TRUE, raised |-> FALSE, witnesses |-> ToWitnesses(results)]
SrRaised == [returned |-> FALSE, raised |-> TRUE, witnesses |-> << >>]

\* semantic-search.ts:60-86 (called from semantic-rag.ts:69): the cache
\* lookup; a hit returns the hydrated entry, a miss (or a lookup or hydration
\* that throws) issues the searches
SearchBegin ==
  /\ se_pc \in {"idle", "done"}
  /\ \E lookupThrows \in BOOLEAN :
       IF ~lookupThrows /\ CachedSearch(db_cache, now)
       THEN LET cached == HydrateCachedResults(db_chunks, db_cache.chunkIds, db_cache.scores)
            IN /\ se_pc' = "done"
               /\ se_out' = SeReturned(cached, TRUE)
               /\ sr_out' = SrReturned(cached)
               /\ se_vec' = NotStarted
               /\ se_ft' = NotStarted
       ELSE /\ se_pc' = "searching"
            /\ se_out' = SePending
            /\ sr_out' = SrPending
            /\ se_vec' = PendingPromise
            /\ se_ft' = IF se_opts.useHybridSearch THEN PendingPromise ELSE NotStarted
  /\ UNCHANGED <<db_chunks, db_cache, now, se_opts, h_cached, db_writes>>
  /\ UNCHANGED <<fwVars, rcVars, fuVars, grVars, vaVars, scVars, hyVars, ccVars, ckVars>>

\* the limit each of the two searches is called with (lines 85, 128, 129)
QueryLimit(opts) ==
  IF opts.useHybridSearch THEN EffLimit(opts.limit) * 2 ELSE EffLimit(opts.limit)

\* semantic-search.ts:106-112 with generateQueryEmbedding (184-197)
VectorSettle ==
  /\ se_pc = "searching"
  /\ se_vec.state = "pending"
  /\ \/ se_vec' = Rejected("Failed to generate query embedding")
     \/ se_vec' = Rejected("database")
     \/ \E rows \in VectorRankings(db_chunks, QueryLimit(se_opts), MinSimilarity) :
          se_vec' = Fulfilled(rows)
  /\ UNCHANGED <<db_chunks, db_cache, now, se_pc, se_opts, se_ft, se_out, sr_out, h_cached, db_writes>>
  /\ UNCHANGED <<fwVars, rcVars, fuVars, grVars, vaVars, scVars, hyVars, ccVars, ckVars>>

\* semantic-search.ts:117-120
FulltextSettle ==
  /\ se_pc = "searching"
  /\ se_ft.state = "pending"
  /\ \/ se_ft' = Rejected("database")
     \/ \E rows \in FulltextRankings(db_chunks, QueryLimit(se_opts)) :
          se_ft' = Fulfilled(rows)
  /\ UNCHANGED <<db_chunks, db_cache, now, se_pc, se_opts, se_vec, se_out, sr_out, h_cached, db_writes>>
  /\ UNCHANGED <<fwVars, rcVars, fuVars, grVars, vaVars, scVars, hyVars, ccVars, ckVars>>

\* Promise.all of hybridSearch, or the single await of the vector search
AnyRejected == se_vec.state = "rejected" \/ se_ft.state = "rejected"
AllFulfilled ==
  /\ se_vec.state = "fulfilled"
  /\ se_opts.useHybridSearch => se_ft.state = "fulfilled"

\* semantic-search.ts:82-86: a rejected search propagates out of search, and
\* SemanticRAG.search rethrows it (semantic-rag.ts:103-106)
SearchRaise ==
  /\ se_pc = "searching"
  /\ AnyRejected
  /\ se_pc' = "done"
  /\ se_out' = SeRaised
  /\ sr_out' = SrRaised
  /\ UNCHANGED <<db_chunks, db_cache, now, se_opts, se_vec, se_ft, h_cached, db_writes>>
  /\ UNCHANGED <<fwVars, rcVars, fuVars, grVars, vaVars, scVars, hyVars, ccVars, ckVars>>

\* the result list of the cache-miss computation (lines 82-86, 132-135)
ComputedUnsliced(opts, vec, ft) ==
  IF opts.useHybridSearch THEN CombineAndRerank(vec.rows, ft.rows) ELSE vec.rows
Computed(opts, vec, ft) ==
  IF opts.useHybridSearch
  THEN Prefix(CombineAndRerank(vec.rows, ft.rows), EffLimit(opts.limit))
  ELSE vec.rows

\* semantic-search.ts:239-249 and 88-100: what search does once
\* cacheResults was awaited; a write that threw was caught and logged
AfterCacheWriteRethrow(results, writeThrows) ==
  IF writeThrows THEN SeRaised ELSE SeReturned(results, FALSE)
AfterCacheWrite(results, writeThrows) == SeReturned(results, FALSE)

\* semantic-search.ts:88-100: cache the results (a failed write is ignored)
\* and return; SemanticRAG.search maps them to witnesses
SearchReturn ==
  /\ se_pc = "searching"
  /\ AllFulfilled
  /\ LET results == Computed(se_opts, se_vec, se_ft)
     IN /\ \E writeThrows \in BOOLEAN :
             /\ db_cache' = IF writeThrows THEN db_cache ELSE EntryFor(results, now)
             /\ h_cached' = IF writeThrows THEN h_cached ELSE results
             /\ se_out' = AfterCacheWrite(results, writeThrows)
        /\ sr_out' = SrReturned(results)
  /\ se_pc' = "done"
  /\ UNCHANGED <<db_chunks, now, se_opts, se_vec, se_ft, db_writes>>
  /\ UNCHANGED <<fwVars, rcVars, fuVars, grVars, vaVars, scVars, hyVars, ccVars, ckVars>>

\* time passes
Tick ==
  /\ now < MaxTime
  /\ now' = now + 1
  /\ UNCHANGED <<db_chunks, db_cache, se_pc, se_opts, se_vec, se_ft, se_out, sr_out, h_cached, db_writes>>
  /\ UNCHANGED <<fwVars, rcVars, fuVars, grVars, vaVars, scVars, hyVars, ccVars, ckVars>>

SearchNext == SearchBegin \/ VectorSettle \/ FulltextSettle \/ SearchRaise \/ SearchReturn \/ Tick

SpecSearch == SearchInit /\ [][SearchNext]_vars

\* ---------------------------------------------------------------- search with a changing chunk store
\* The row a saveChunks call leaves behind for a chunk that is saved again
\* (database.ts:78-85): a new content_english with its new embedding, which
\* the trigger indexes for the lexical search (schema.sql:136-138).
UpdatedRows ==
  {[content |-> TextOf(<<"b">>), emb |-> TRUE, sim |-> 900, ftm |-> TRUE, rank |-> 700]}

\* the rows the store starts with: the query finds every one of them
StoredRows == {r \in ChunkRows : r.emb /\ r.sim = 500 /\ (r.content.null \/ r.ftm)}

CacheInit ==
  /\ db_chunks \in [ChunkIds -> StoredRows]
  /\ db_cache = NoEntry
  /\ now = 0
  /\ se_pc = "idle"
  /\ se_opts \in [limit : {0}, useHybridSearch : BOOLEAN]
  /\ se_vec = NotStarted
  /\ se_ft = NotStarted
  /\ se_out = SePending
  /\ sr_out = SrPending
  /\ h_cached = << >>
  /\ db_writes = 0
  /\ FetchIdle
  /\ RecIdle
  /\ FusionIdle
  /\ GuessIdle
  /\ VerifyIdle
  /\ SaveIdle
  /\ HybridIdle
  /\ WritersIdle
  /\ ChunkerIdle

\* database.ts:65-116: saveChunks commits a new version of one chunk
UpdateChunk ==
  /\ db_writes < MaxUpdates
  /\ \E id \in ChunkIds, row \in UpdatedRows :
       db_chunks' = [db_chunks EXCEPT ![id] = row]
  /\ db_writes' = db_writes + 1
  /\ UNCHANGED <<db_cache, now, se_pc, se_opts, se_vec, se_ft, se_out, sr_out, h_cached>>
  /\ UNCHANGED <<fwVars, rcVars, fuVars, grVars, vaVars, scVars, hyVars, ccVars, ckVars>>

CacheNext == SearchNext \/ UpdateChunk

SpecCache == CacheInit /\ [][CacheNext]_vars

\* ---------------------------------------------------------------- combineAndRerank
\* The result lists the two database queries can hand to combineAndRerank:
\* a chunk id occurs at most once in a list (text_chunks.id is the primary
\* key and the joins are many-to-one).
FusionIds == 1..NumIds

IdLists ==
  {s \in SeqsUpTo(FusionIds, MaxList) : \A i, j \in 1..Len(s) : i # j => s[i] # s[j]}

VectorLists ==
  UNION {{[k \in 1..Len(ids) |->
             SearchResult(ids[k], TextOf(<<"a">>), sims[k], "vector", << >>)] :
            sims \in [1..Len(ids) -> Sims]} : ids \in IdLists}

FulltextLists ==
  UNION {{[k \in 1..Len(ids) |->
             SearchResult(ids[k], TextOf(<<"a">>), ranks[k], "fulltext", <<"q">>)] :
            ranks \in [1..Len(ids) -> Ranks \cup {100}]} : ids \in IdLists}

FusionInit ==
  /\ fu_pc = "called"
  /\ fu_vec \in VectorLists
  /\ fu_ft \in FulltextLists
  /\ fu_out = << >>
  /\ FetchIdle
  /\ RecIdle
  /\ SearchIdle
  /\ GuessIdle
  /\ VerifyIdle
  /\ SaveIdle
  /\ HybridIdle
  /\ WritersIdle
  /\ ChunkerIdle

\* semantic-search.ts:141-179
Fuse ==
  /\ fu_pc = "called"
  /\ fu_out' = CombineAndRerank(fu_vec, fu_ft)
  /\ fu_pc' = "returned"
  /\ UNCHANGED <<fu_vec, fu_ft>>
  /\ UNCHANGED <<fwVars, rcVars, seVars, grVars, vaVars, scVars, hyVars, ccVars, ckVars>>

FusionNext == Fuse

SpecFusion == FusionInit /\ [][FusionNext]_vars

\* ---------------------------------------------------------------- generateGuessRefs
GuessInit ==
  /\ gr_pc = "called"
  /\ gr_question \in Questions
  /\ gr_index \in GuessIndexes
  /\ gr_scored = << >>
  /\ gr_matched = << >>
  /\ gr_base = << >>
  /\ gr_out = << >>
  /\ FetchIdle
  /\ RecIdle
  /\ SearchIdle
  /\ FusionIdle
  /\ VerifyIdle
  /\ SaveIdle
  /\ HybridIdle
  /\ WritersIdle
  /\ ChunkerIdle

\* rag.ts:258  findMatchingWorks(question)
GuessMatch ==
  /\ gr_pc = "called"
  /\ gr_scored' = ScoredWorks(GetAllRamchalWorks(gr_index), gr_question)
  /\ gr_matched' = FindMatchingWorks(gr_index, gr_question)
  /\ gr_pc' = "matched"
  /\ UNCHANGED <<gr_question, gr_index, gr_base, gr_out>>
  /\ UNCHANGED <<fwVars, rcVars, seVars, fuVars, vaVars, scVars, hyVars, ccVars, ckVars>>

\* rag.ts:260-269: no work matched, the references of the default works
GuessDefault ==
  /\ gr_pc = "matched"
  /\ Len(gr_matched) = 0
  /\ gr_out' = GenerateWitnessRefs(DefaultWorks(gr_index), gr_question)
  /\ gr_pc' = "returned"
  /\ UNCHANGED <<gr_question, gr_index, gr_scored, gr_matched, gr_base>>
  /\ UNCHANGED <<fwVars, rcVars, seVars, fuVars, vaVars, scVars, hyVars, ccVars, ckVars>>

\* rag.ts:272  baseRefs = generateWitnessRefs(matchedWorks, question)
GuessBase ==
  /\ gr_pc = "matched"
  /\ Len(gr_matched) # 0
  /\ gr_base' = GenerateWitnessRefs(gr_matched, gr_question)
  /\ gr_pc' = "based"
  /\ UNCHANGED <<gr_question, gr_index, gr_scored, gr_matched, gr_out>>
  /\ UNCHANGED <<fwVars, rcVars, seVars, fuVars, vaVars, scVars, hyVars, ccVars, ckVars>>

\* rag.ts:275-277  return addAdjacentChapters(baseRefs, matchedWorks)
GuessAdjacent ==
  /\ gr_pc = "based"
  /\ gr_out' = AddAdjacentChapters(gr_base, gr_matched)
  /\ gr_pc' = "returned"
  /\ UNCHANGED <<gr_question, gr_index, gr_scored, gr_matched, gr_base>>
  /\ UNCHANGED <<fwVars, rcVars, seVars, fuVars, vaVars, scVars, hyVars, ccVars, ckVars>>

GuessNext == GuessMatch \/ GuessDefault \/ GuessBase \/ GuessAdjacent

SpecGuess == GuessInit /\ [][GuessNext]_vars

\* ---------------------------------------------------------------- findMatchingWorks
MatchInit ==
  /\ gr_pc = "called"
  /\ gr_question \in Questions
  /\ gr_index \in ScoreIndexes
  /\ gr_scored = << >>
  /\ gr_matched = << >>
  /\ gr_base = << >>
  /\ gr_out = << >>
  /\ FetchIdle
  /\ RecIdle
  /\ SearchIdle
  /\ FusionIdle
  /\ VerifyIdle
  /\ SaveIdle
  /\ HybridIdle
  /\ WritersIdle
  /\ ChunkerIdle

MatchNext == GuessMatch

SpecMatch == MatchInit /\ [][MatchNext]_vars

\* ---------------------------------------------------------------- verifyAnswer
VerifyInit ==
  /\ va_pc = "called"
  /\ va_answer \in Answers
  /\ va_witnesses \in WitnessLists
  /\ va_sentences = << >>
  /\ va_result = NoVerification
  /\ va_sentences2 = << >>
  /\ va_result2 = NoVerification
  /\ FetchIdle
  /\ RecIdle
  /\ SearchIdle
  /\ FusionIdle
  /\ GuessIdle
  /\ SaveIdle
  /\ HybridIdle
  /\ WritersIdle
  /\ ChunkerIdle

\* verifyAnswer(answer, witnesses)
Verify ==
  /\ va_pc = "called"
  /\ va_sentences' = VerifiedSentences(va_answer, va_witnesses)
  /\ va_result' = VerifyAnswer(va_answer, va_witnesses)
  /\ va_pc' = "verified"
  /\ UNCHANGED <<va_answer, va_witnesses, va_sentences2, va_result2>>
  /\ UNCHANGED <<fwVars, rcVars, seVars, fuVars, grVars, scVars, hyVars, ccVars, ckVars>>

\* verifyAnswer(result.verifiedAnswer, witnesses)
Reverify ==
  /\ va_pc = "verified"
  /\ va_sentences2' = VerifiedSentences(va_result.verifiedAnswer, va_witnesses)
  /\ va_result2' = VerifyAnswer(va_result.verifiedAnswer, va_witnesses)
  /\ va_pc' = "reverified"
  /\ UNCHANGED <<va_answer, va_witnesses, va_sentences, va_result>>
  /\ UNCHANGED <<fwVars, rcVars, seVars, fuVars, grVars, scVars, hyVars, ccVars, ckVars>>

VerifyNext == Verify \/ Reverify

SpecVerify == VerifyInit /\ [][VerifyNext]_vars

\* ---------------------------------------------------------------- TextChunkDB.saveChunks
\* schema.sql creates text_chunks without a unique index on tref
\* (idx_text_chunks_tref is a plain index); a database to which one was
\* added is the other case
SaveInit ==
  /\ tc_rows = << >>
  /\ tc_unique \in BOOLEAN
  /\ sc_pc = "idle"
  /\ sc_chunks = << >>
  /\ sc_i = 0
  /\ sc_tx = << >>
  /\ sc_result = "none"
  /\ sc_client = "none"
  /\ sc_fault = "none"
  /\ sc_before = << >>
  /\ sc_calls = 0
  /\ FetchIdle
  /\ RecIdle
  /\ SearchIdle
  /\ FusionIdle
  /\ GuessIdle
  /\ VerifyIdle
  /\ HybridIdle
  /\ WritersIdle
  /\ ChunkerIdle

otherThanSave ==
  <<fwVars, rcVars, seVars, fuVars, grVars, vaVars, hyVars, ccVars, ckVars>>

\* saveChunks(chunks) is called
ScCall ==
  /\ sc_pc \in {"idle", "returned"}
  /\ sc_calls < MaxSaves
  /\ sc_chunks' \in Batches
  /\ sc_calls' = sc_calls + 1
  /\ sc_pc' = "connect"
  /\ sc_i' = 0
  /\ sc_tx' = << >>
  /\ sc_result' = "none"
  /\ sc_client' = "none"
  /\ sc_fault' = "none"
  /\ sc_before' = tc_rows
  /\ UNCHANGED <<tc_rows, tc_unique>>
  /\ UNCHANGED otherThanSave

\* database.ts:66  await this.pool.connect(), outside the try
ScConnect ==
  /\ sc_pc = "connect"
  /\ \E ok \in BOOLEAN :
       IF ok
       THEN /\ sc_pc' = "begin"
            /\ sc_client' = "held"
            /\ UNCHANGED <<sc_result, sc_fault>>
       ELSE /\ sc_pc' = "returned"
            /\ sc_result' = "raised"
            /\ sc_fault' = "environment"
            /\ UNCHANGED sc_client
  /\ UNCHANGED <<tc_rows, tc_unique, sc_chunks, sc_i, sc_tx, sc_before, sc_calls>>
  /\ UNCHANGED otherThanSave

\* database.ts:69  BEGIN
ScBegin ==
  /\ sc_pc = "begin"
  /\ sc_tx' = tc_rows
  /\ sc_pc' = "loop"
  /\ UNCHANGED <<tc_rows, tc_unique, sc_chunks, sc_i, sc_result, sc_client, sc_fault,
                 sc_before, sc_calls>>
  /\ UNCHANGED otherThanSave

\* database.ts:88-107: the statement of the next chunk. Without a unique
\* index on the conflict target PostgreSQL rejects the statement; with one,
\* the statement may still fail (foreign key, lost connection)
ScInsert ==
  /\ sc_pc = "loop"
  /\ sc_i < Len(sc_chunks)
  /\ \E ok \in BOOLEAN :
       IF ~tc_unique
       THEN /\ sc_pc' = "catch"
            /\ sc_fault' = "no unique index"
            /\ UNCHANGED <<sc_i, sc_tx>>
       ELSE IF ~ok
       THEN /\ sc_pc' = "catch"
            /\ sc_fault' = "environment"
            /\ UNCHANGED <<sc_i, sc_tx>>
       ELSE /\ sc_tx' = Upsert(sc_tx, sc_chunks[sc_i + 1])
            /\ sc_i' = sc_i + 1
            /\ UNCHANGED <<sc_pc, sc_fault>>
  /\ UNCHANGED <<tc_rows, tc_unique, sc_chunks, sc_result, sc_client, sc_before, sc_calls>>
  /\ UNCHANGED otherThanSave

\* database.ts:109  COMMIT
ScCommit ==
  /\ sc_pc = "loop"
  /\ sc_i = Len(sc_chunks)
  /\ \E ok \in BOOLEAN :
       IF ok
       THEN /\ tc_rows' = sc_tx
            /\ sc_result' = "ok"
            /\ sc_pc' = "finally"
            /\ UNCHANGED sc_fault
       ELSE /\ sc_pc' = "catch"
            /\ sc_fault' = "environment"
            /\ UNCHANGED <<tc_rows, sc_result>>
  /\ UNCHANGED <<tc_unique, sc_chunks, sc_i, sc_tx, sc_client, sc_before, sc_calls>>
  /\ UNCHANGED otherThanSave

\* database.ts:110-112  ROLLBACK; throw error
ScRollback ==
  /\ sc_pc = "catch"
  /\ tc_rows' = RolledBack(tc_rows, sc_tx)
  /\ sc_result' = "raised"
  /\ sc_pc' = "finally"
  /\ UNCHANGED <<tc_unique, sc_chunks, sc_i, sc_tx, sc_client, sc_fault, sc_before, sc_calls>>
  /\ UNCHANGED otherThanSave

\* database.ts:113-115  finally { client.release() }
ScRelease ==
  /\ sc_pc = "finally"
  /\ sc_client' = "released"
  /\ sc_pc' = "returned"
  /\ UNCHANGED <<tc_rows, tc_unique, sc_chunks, sc_i, sc_tx, sc_result, sc_fault, sc_before,
                 sc_calls>>
  /\ UNCHANGED otherThanSave

SaveNext == ScCall \/ ScConnect \/ ScBegin \/ ScInsert \/ ScCommit \/ ScRollback \/ ScRelease

SpecSave == SaveInit /\ [][SaveNext]_vars

\* ---------------------------------------------------------------- hybridSearch
HybridInit ==
  /\ hy_pc = "called"
  /\ hy_chunks \in [ChunkIds -> ChunkRows]
  /\ hy_limit \in 0..MaxLimit
  /\ hy_asked = NotAsked
  /\ hy_vec = NotStarted
  /\ hy_ft = NotStarted
  /\ hy_order = << >>
  /\ hy_out = HyPending
  /\ FetchIdle
  /\ RecIdle
  /\ SearchIdle
  /\ FusionIdle
  /\ GuessIdle
  /\ VerifyIdle
  /\ SaveIdle
  /\ WritersIdle
  /\ ChunkerIdle

otherThanHybrid ==
  <<fwVars, rcVars, seVars, fuVars, grVars, vaVars, scVars, ccVars, ckVars>>

\* semantic-search.ts:127-130: the array given to Promise.all is built by
\* calling vectorSearch and fulltextSearch one after the other, each with
\* limit (options.limit || 10) * 2; both are pending when the await starts
HyIssue ==
  /\ hy_pc = "called"
  /\ hy_asked' = [vector |-> EffLimit(hy_limit) * 2, fulltext |-> EffLimit(hy_limit) * 2]
  /\ hy_vec' = PendingPromise
  /\ hy_ft' = PendingPromise
  /\ hy_pc' = "awaiting"
  /\ UNCHANGED <<hy_chunks, hy_limit, hy_order, hy_out>>
  /\ UNCHANGED otherThanHybrid

\* semantic-search.ts:106-112
HyVectorSettle ==
  /\ hy_pc = "awaiting"
  /\ hy_vec.state = "pending"
  /\ \/ hy_vec' = Rejected("Failed to generate query embedding")
     \/ \E rows \in VectorRankings(hy_chunks, hy_asked.vector, MinSimilarity) :
          hy_vec' = Fulfilled(rows)
  /\ hy_order' = Append(hy_order, "vector")
  /\ UNCHANGED <<hy_pc, hy_chunks, hy_limit, hy_asked, hy_ft, hy_out>>
  /\ UNCHANGED otherThanHybrid

\* semantic-search.ts:117-120
HyFulltextSettle ==
  /\ hy_pc = "awaiting"
  /\ hy_ft.state = "pending"
  /\ \/ hy_ft' = Rejected("database")
     \/ \E rows \in FulltextRankings(hy_chunks, hy_asked.fulltext) :
          hy_ft' = Fulfilled(rows)
  /\ hy_order' = Append(hy_order, "fulltext")
  /\ UNCHANGED <<hy_pc, hy_chunks, hy_limit, hy_asked, hy_vec, hy_out>>
  /\ UNCHANGED otherThanHybrid

\* Promise.all rejects as soon as one of the two is rejected
HyRaise ==
  /\ hy_pc = "awaiting"
  /\ hy_vec.state = "rejected" \/ hy_ft.state = "rejected"
  /\ hy_out' = [returned |-> FALSE, raised |-> TRUE, results |-> << >>]
  /\ hy_pc' = "returned"
  /\ UNCHANGED <<hy_chunks, hy_limit, hy_asked, hy_vec, hy_ft, hy_order>>
  /\ UNCHANGED otherThanHybrid

\* semantic-search.ts:127-135: Promise.all fulfils with the two lists in the
\* order of its argument, whichever settled first
HybridResultByArrival(limit, vec, ft) ==
  IF hy_order[1] = "vector"
  THEN Prefix(CombineAndRerank(vec.rows, ft.rows), EffLimit(limit))
  ELSE Prefix(CombineAndRerank(ft.rows, vec.rows), EffLimit(limit))
HybridResult(limit, vec, ft) ==
  Prefix(CombineAndRerank(vec.rows, ft.rows), EffLimit(limit))

HyReturn ==
  /\ hy_pc = "awaiting"
  /\ hy_vec.state = "fulfilled"
  /\ hy_ft.state = "fulfilled"
  /\ hy_out' = [returned |-> TRUE, raised |-> FALSE,
                results |-> HybridResult(hy_limit, hy_vec, hy_ft)]
  /\ hy_pc' = "returned"
  /\ UNCHANGED <<hy_chunks, hy_limit, hy_asked, hy_vec, hy_ft, hy_order>>
  /\ UNCHANGED otherThanHybrid

HybridNext == HyIssue \/ HyVectorSettle \/ HyFulltextSettle \/ HyRaise \/ HyReturn

SpecHybrid == HybridInit /\ [][HybridNext]_vars

\* ---------------------------------------------------------------- concurrent cache writers
WritersInit ==
  /\ cc_rows = << >>
  /\ cc_pc = [p \in Searchers |-> "lookup"]
  /\ cc_results = [p \in Searchers |-> << >>]
  /\ cc_wrote = << >>
  /\ cc_seen = << >>
  /\ cc_reads = 0
  /\ FetchIdle
  /\ RecIdle
  /\ SearchIdle
  /\ FusionIdle
  /\ GuessIdle
  /\ VerifyIdle
  /\ SaveIdle
  /\ HybridIdle
  /\ ChunkerIdle

otherThanWriters ==
  <<fwVars, rcVars, seVars, fuVars, grVars, vaVars, scVars, hyVars, ckVars>>

\* what getCachedSearch returns for a row (database.ts:273-278)
Seen(row) == [chunkIds |-> row.chunkIds, scores |-> row.scores]

\* semantic-search.ts:60-78: the lookup of searcher p; a hit ends the search
CcLookup(p) ==
  /\ cc_pc[p] = "lookup"
  /\ IF cc_rows # << >>
     THEN /\ cc_seen' = Append(cc_seen, Seen(cc_rows[1]))
          /\ cc_pc' = [cc_pc EXCEPT ![p] = "done"]
     ELSE /\ cc_pc' = [cc_pc EXCEPT ![p] = "searching"]
          /\ UNCHANGED cc_seen
  /\ UNCHANGED <<cc_rows, cc_results, cc_wrote, cc_reads>>
  /\ UNCHANGED otherThanWriters

\* semantic-search.ts:82-89: searcher p has its results and caches them;
\* a write that throws is swallowed (lines 245-248)
CcCacheResults(p) ==
  /\ cc_pc[p] = "searching"
  /\ \E results \in ResultLists, ok \in BOOLEAN :
       /\ cc_results' = [cc_results EXCEPT ![p] = results]
       /\ IF ok
          THEN /\ cc_rows' = CacheUpsert(cc_rows, EntryFor(results, 0))
               /\ cc_wrote' = Append(cc_wrote, p)
          ELSE UNCHANGED <<cc_rows, cc_wrote>>
  /\ cc_pc' = [cc_pc EXCEPT ![p] = "done"]
  /\ UNCHANGED <<cc_seen, cc_reads>>
  /\ UNCHANGED otherThanWriters

\* database.ts:268-282: the lookup of another reader of the key
CcRead ==
  /\ cc_reads < MaxReads
  /\ cc_reads' = cc_reads + 1
  /\ cc_seen' = IF cc_rows # << >> THEN Append(cc_seen, Seen(cc_rows[1])) ELSE cc_seen
  /\ UNCHANGED <<cc_rows, cc_pc, cc_results, cc_wrote>>
  /\ UNCHANGED otherThanWriters

WritersNext ==
  \/ \E p \in Searchers : CcLookup(p)
  \/ \E p \in Searchers : CcCacheResults(p)
  \/ CcRead

SpecWriters == WritersInit /\ [][WritersNext]_vars

\* ---------------------------------------------------------------- TextChunker.chunkText
ChunkInit ==
  /\ ck_pc = "idle"
  /\ ck_text = << >>
  /\ ck_language = "english"
  /\ ck_max \in 1..MaxChunkLength
  /\ ck_overlap \in 0..(MaxChunkLength - 1)
  /\ ck_overlap < ck_max
  /\ ck_chunks = << >>
  /\ ck_k = 0
  /\ ck_start = 0
  /\ ck_result = << >>
  /\ ck_turn = 0
  /\ FetchIdle
  /\ RecIdle
  /\ SearchIdle
  /\ FusionIdle
  /\ GuessIdle
  /\ VerifyIdle
  /\ SaveIdle
  /\ HybridIdle
  /\ WritersIdle

otherThanChunker ==
  <<fwVars, rcVars, seVars, fuVars, grVars, vaVars, scVars, hyVars, ccVars>>

\* part_004:449  chunkText(text, language)
ChunkCall ==
  /\ ck_pc = "idle"
  /\ ck_text' \in Texts
  /\ ck_language' \in Languages
  /\ ck_pc' = "called"
  /\ UNCHANGED <<ck_max, ck_overlap, ck_chunks, ck_k, ck_start, ck_result, ck_turn>>
  /\ UNCHANGED otherThanChunker

\* part_004:449-450: a blank text gives no chunks
ChunkBlank ==
  /\ ck_pc = "called"
  /\ TrimWs(ck_text) = << >>
  /\ ck_pc' = "returned"
  /\ UNCHANGED <<ck_text, ck_language, ck_max, ck_overlap, ck_chunks, ck_k, ck_start, ck_result, ck_turn>>
  /\ UNCHANGED otherThanChunker

\* part_004:452-456: normalizeText, splitByBoundaries
ChunkSplit ==
  /\ ck_pc = "called"
  /\ TrimWs(ck_text) # << >>
  /\ ck_chunks' = Apply(LAMBDA normalized : SplitByBoundaries(normalized, ck_language, ck_max),
                        NormalizeText(ck_text))
  /\ ck_pc' = "chunks"
  /\ UNCHANGED <<ck_text, ck_language, ck_max, ck_overlap, ck_k, ck_start, ck_result, ck_turn>>
  /\ UNCHANGED otherThanChunker

\* part_004:521-523: the next chunk fits
ChunkKeep ==
  /\ ck_pc = "chunks"
  /\ ck_k < Len(ck_chunks)
  /\ Len(ck_chunks[ck_k + 1]) <= ck_max
  /\ ck_result' = PushPiece(ck_result, ck_chunks[ck_k + 1])
  /\ ck_k' = ck_k + 1
  /\ UNCHANGED <<ck_pc, ck_text, ck_language, ck_max, ck_overlap, ck_chunks, ck_start, ck_turn>>
  /\ UNCHANGED otherThanChunker

\* part_004:524-526: the next chunk is too long, let start = 0
ChunkForce ==
  /\ ck_pc = "chunks"
  /\ ck_k < Len(ck_chunks)
  /\ Len(ck_chunks[ck_k + 1]) > ck_max
  /\ ck_start' = 0
  /\ ck_pc' = "while"
  /\ UNCHANGED <<ck_text, ck_language, ck_max, ck_overlap, ck_chunks, ck_k, ck_result, ck_turn>>
  /\ UNCHANGED otherThanChunker

\* part_004:527-531: one turn of while (start < chunk.length)
ChunkPiece ==
  /\ ck_pc = "while"
  /\ ck_start < Len(ck_chunks[ck_k + 1])
  /\ LET chunk == ck_chunks[ck_k + 1]
         end == Min(ck_start + ck_max, Len(chunk))
     IN /\ ck_result' = PushPiece(ck_result, SubSeq(chunk, ck_start + 1, end))
        /\ ck_start' = NextStart(end, ck_overlap, Len(chunk))
  /\ ck_turn' = (ck_turn + 1) % 2
  /\ UNCHANGED <<ck_pc, ck_text, ck_language, ck_max, ck_overlap, ck_chunks, ck_k>>
  /\ UNCHANGED otherThanChunker

\* part_004:527: the while loop ends
ChunkForced ==
  /\ ck_pc = "while"
  /\ ck_start >= Len(ck_chunks[ck_k + 1])
  /\ ck_k' = ck_k + 1
  /\ ck_pc' = "chunks"
  /\ UNCHANGED <<ck_text, ck_language, ck_max, ck_overlap, ck_chunks, ck_start, ck_result, ck_turn>>
  /\ UNCHANGED otherThanChunker

\* part_004:535  return result
ChunkReturn ==
  /\ ck_pc = "chunks"
  /\ ck_k = Len(ck_chunks)
  /\ ck_pc' = "returned"
  /\ UNCHANGED <<ck_text, ck_language, ck_max, ck_overlap, ck_chunks, ck_k, ck_start, ck_result, ck_turn>>
  /\ UNCHANGED otherThanChunker

ChunkNext ==
  ChunkCall \/ ChunkBlank \/ ChunkSplit \/ ChunkKeep \/ ChunkForce \/ ChunkPiece \/ ChunkForced \/ ChunkReturn

SpecChunk == ChunkInit /\ [][ChunkNext]_vars

\* the call runs on: a step that can be taken is taken
SpecChunkFair == SpecChunk /\ WF_vars(ChunkNext)

\* ======================================================================
\* Properties
\* ======================================================================

\* ---------------------------------------------------------------- hybridBootstrapRAG
SemReturned == rc_pc = "done" /\ ~rc_sem.raised
\* the legacy function was called once, in the try block, and returned
LegacyReturnedInTry == Len(rc_leg) = 1 /\ ~rc_leg[1].raised

\* C1: when the semantic path returns one witness (at least one, fewer than
\* two) and the legacy path returns at least one, the result is tagged
\* 'hybrid' and is the semantic witnesses in order followed by the legacy
\* witnesses, in order, whose tref is not the tref of a semantic witness.
C1_MergeSemanticThenNewLegacy ==
  (SemReturned /\ LegacyReturnedInTry
   /\ Len(rc_sem.witnesses) \in {1} /\ Len(rc_leg[1].witnesses) >= 1)
  => LET sw == rc_sem.witnesses
         lw == rc_leg[1].witnesses
         rw == rc_result.witnesses
         keep == {i \in 1..Len(lw) : \A j \in 1..Len(sw) : sw[j].tref # lw[i].tref}
     IN /\ rc_result.returned
        /\ rc_result.searchMethod = "hybrid"
        /\ Len(rw) = Len(sw) + Cardinality(keep)
        /\ \A j \in 1..Len(sw) : rw[j] = sw[j]
        /\ \A i \in keep : rw[Len(sw) + Cardinality({k \in keep : k <= i})] = lw[i]

\* one semantic witness and three legacy witnesses with other, distinct
\* trefs gave four witnesses tagged hybrid
C1_Witness ==
  /\ SemReturned /\ LegacyReturnedInTry
  /\ Len(rc_sem.witnesses) = 1
  /\ Len(rc_leg[1].witnesses) = 3
  /\ Cardinality(TrefsOf(rc_leg[1].witnesses) \cup TrefsOf(rc_sem.witnesses)) = 4
  /\ rc_result.searchMethod = "hybrid"
  /\ Len(rc_result.witnesses) = 4

\* C2: a result tagged 'hybrid' never holds two witnesses with the same tref.
C2_HybridHasNoDuplicateTref ==
  (rc_pc = "done" /\ rc_result.returned /\ rc_result.searchMethod = "hybrid")
  => \A i, j \in 1..Len(rc_result.witnesses) :
       i # j => rc_result.witnesses[i].tref # rc_result.witnesses[j].tref

\* C3: when the semantic path completed without raising, hybridBootstrapRAG
\* does not raise, whatever the legacy path does.
C3_NoErrorWhenSemanticCompletes ==
  SemReturned => ~rc_result.raised

\* C4: when the semantic path raised, the legacy function is called in the
\* catch block and its result is returned as it is, tagged 'legacy' (its
\* error is the error of the call); nothing else is in the result.
C4_SemanticErrorFallsBackToLegacy ==
  (rc_pc = "done" /\ rc_sem.raised)
  => /\ Len(rc_leg) = 1
     /\ rc_leg[1].raised => rc_result.raised
     /\ ~rc_leg[1].raised =>
          /\ rc_result.returned
          /\ rc_result.searchMethod = "legacy"
          /\ rc_result.witnesses = rc_leg[1].witnesses

C4_Witness ==
  /\ rc_pc = "done" /\ rc_sem.raised
  /\ rc_result.returned
  /\ Len(rc_result.witnesses) >= 2

\* C5: when the semantic path returns two or more witnesses, they are
\* returned unchanged, tagged 'semantic', and the legacy function is never
\* called.
C5_EnoughSemanticSkipsLegacy ==
  (SemReturned /\ Len(rc_sem.witnesses) >= 2)
  => /\ rc_result.returned
     /\ rc_result.searchMethod = "semantic"
     /\ rc_result.witnesses = rc_sem.witnesses
     /\ rc_leg = << >>

C5_Witness ==
  /\ SemReturned /\ Len(rc_sem.witnesses) = 2
  /\ rc_result.returned /\ rc_result.searchMethod = "semantic"

FetchedText(i) ==
  /\ ~fw_log[i].throws
  /\ fw_log[i].text.kind # "undefined"
  /\ \E c \in 1..Len(TextContentOf(fw_log[i].text)) : TextContentOf(fw_log[i].text)[c] # SP

\* C7: whichever fetches throw, fetchWitnesses goes through the whole list
\* and returns, for the references processed so far, one witness for each
\* reference whose fetch succeeded with text, in the order of the list; it
\* never raises.
C7_FailedFetchesAreSkipped ==
  LET ok == {i \in 1..fw_i : FetchedText(i)}
  IN /\ fw_i = Len(fw_log)
     /\ fw_pc = "returned" => fw_i = Len(fw_refs)
     /\ Len(fw_witnesses) = Cardinality(ok)
     /\ \A i \in ok :
          LET w == fw_witnesses[Cardinality({k \in ok : k <= i})]
          IN /\ w.tref = (IF fw_log[i].ref = 0 THEN fw_refs[i] ELSE fw_log[i].ref)
             /\ w.text = TextContentOf(fw_log[i].text)

\* the first and the third fetch threw, the second gave a witness
C7_Witness ==
  /\ fw_pc = "returned"
  /\ Len(fw_refs) = 3
  /\ fw_log[1].throws /\ FetchedText(2) /\ fw_log[3].throws
  /\ Len(fw_witnesses) = 1

\* ---------------------------------------------------------------- search
\* C8: every witness the retrieval core returns has text: none has an empty
\* or missing text.
C8_EveryWitnessHasText ==
  sr_out.returned =>
    \A k \in 1..Len(sr_out.witnesses) : sr_out.witnesses[k].text # EmptyStr

\* C9: in hybrid mode a failed query embedding does not fail the search: the
\* lexical results are returned.
C9_EmbeddingFailureDegradesToLexical ==
  (se_pc = "done" /\ se_opts.useHybridSearch
   /\ se_vec = Rejected("Failed to generate query embedding")
   /\ se_ft.state # "rejected")
  => /\ se_out.returned
     /\ \A k \in 1..Len(se_out.results) : se_out.results[k].searchType = "fulltext"

\* ---------------------------------------------------------------- combineAndRerank
IdsOf(rs) == {rs[k].chunkId : k \in 1..Len(rs)}
EntryOf(rs, id) == rs[CHOOSE k \in 1..Len(rs) : rs[k].chunkId = id]

\* C10: a chunk id in both lists gets min(1.0, s * 1.3) of its vector
\* similarity s and the tag 'hybrid'; one only in the vector list keeps its
\* similarity, tagged 'vector'; one only in the lexical list keeps its
\* lexical score, tagged 'fulltext'; each id is in the fused list once.
C10_FusionBoost ==
  fu_pc = "returned" =>
    /\ IdsOf(fu_out) = IdsOf(fu_vec) \cup IdsOf(fu_ft)
    /\ Len(fu_out) = Cardinality(IdsOf(fu_out))
    /\ \A id \in IdsOf(fu_vec) \cap IdsOf(fu_ft) :
         /\ EntryOf(fu_out, id).searchType = "hybrid"
         /\ EntryOf(fu_out, id).similarity =
              (IF EntryOf(fu_vec, id).similarity * 13 >= 10000 THEN 1000
               ELSE (EntryOf(fu_vec, id).similarity * 13) \div 10)
    /\ \A id \in IdsOf(fu_vec) \ IdsOf(fu_ft) :
         /\ EntryOf(fu_out, id).searchType = "vector"
         /\ EntryOf(fu_out, id).similarity = EntryOf(fu_vec, id).similarity
    /\ \A id \in IdsOf(fu_ft) \ IdsOf(fu_vec) :
         /\ EntryOf(fu_out, id).searchType = "fulltext"
         /\ EntryOf(fu_out, id).similarity = EntryOf(fu_ft, id).similarity

\* vector [1: 0.9, 2: 0.5], lexical [1, 3]: 1 is capped at 1.0 and hybrid,
\* 2 stays vector, 3 is fulltext
C10_Witness ==
  /\ fu_pc = "returned"
  /\ Len(fu_vec) = 2 /\ fu_vec[1].chunkId = 1 /\ fu_vec[1].similarity = 900
  /\ fu_vec[2].chunkId = 2 /\ fu_vec[2].similarity = 500
  /\ Len(fu_ft) = 2 /\ fu_ft[1].chunkId = 1 /\ fu_ft[2].chunkId = 3
  /\ Len(fu_out) = 3
  /\ fu_out[1].chunkId = 1 /\ fu_out[1].similarity = 1000 /\ fu_out[1].searchType = "hybrid"

\* ---------------------------------------------------------------- search: miss, cache, hit
\* search returned the result of a hybrid computation (no cache hit)
HybridMiss ==
  /\ se_pc = "done" /\ se_out.returned
  /\ ~se_out.analytics.cacheHit
  /\ se_opts.useHybridSearch

\* the similarity the fusion of the two settled searches gives a chunk id
FusedSimilarity(id) ==
  IF id \in IdsOf(se_vec.rows)
  THEN IF id \in IdsOf(se_ft.rows)
       THEN (IF EntryOf(se_vec.rows, id).similarity * 13 >= 10000 THEN 1000
             ELSE (EntryOf(se_vec.rows, id).similarity * 13) \div 10)
       ELSE EntryOf(se_vec.rows, id).similarity
  ELSE EntryOf(se_ft.rows, id).similarity

\* C11: on a cache miss in hybrid mode the result list is ordered by
\* non-increasing similarity, holds each chunk id at most once and has at
\* most `limit` entries (10 when no limit is given): the `limit` entries of
\* the fused list with the highest similarities.
C11_HybridMissSortedDistinctLimited ==
  HybridMiss =>
    LET rs == se_out.results
        fused == IdsOf(se_vec.rows) \cup IdsOf(se_ft.rows)
        lim == IF se_opts.limit = 0 THEN 10 ELSE se_opts.limit
    IN /\ \A k \in 1..(Len(rs) - 1) : rs[k].similarity >= rs[k + 1].similarity
       /\ \A i, j \in 1..Len(rs) : i # j => rs[i].chunkId # rs[j].chunkId
       /\ Len(rs) <= lim
       /\ Len(rs) = (IF Cardinality(fused) < lim THEN Cardinality(fused) ELSE lim)
       /\ \A k \in 1..Len(rs) :
            /\ rs[k].chunkId \in fused
            /\ rs[k].similarity = FusedSimilarity(rs[k].chunkId)
            /\ \A id \in fused \ IdsOf(rs) : rs[k].similarity >= FusedSimilarity(id)

\* limit 1 and two fused chunks: the one returned is not the one the vector
\* search ranked first (the sort moved it), the other one is cut off
C11_Witness ==
  /\ HybridMiss
  /\ se_opts.limit = 1
  /\ Cardinality(IdsOf(se_vec.rows) \cup IdsOf(se_ft.rows)) = 2
  /\ Len(se_vec.rows) >= 1
  /\ Len(se_out.results) = 1
  /\ se_out.results[1].chunkId # se_vec.rows[1].chunkId

\* the references and scores of a result list, in order
ScoredRefs(rs) == [k \in 1..Len(rs) |-> <<rs[k].tref, rs[k].similarity>>]

CacheHit == se_pc = "done" /\ se_out.returned /\ se_out.analytics.cacheHit

\* C12: a cache hit returns the references and the scores, in the same
\* order, that the uncached computation whose results were written to the
\* cache returned.
C12_CacheRoundTrip ==
  CacheHit => ScoredRefs(se_out.results) = ScoredRefs(h_cached)

\* a step of search from its call to the outcome of the cache lookup
LookupStep ==
  /\ se_pc \in {"idle", "done"}
  /\ now' = now /\ db_chunks' = db_chunks /\ db_writes' = db_writes

\* C13: an entry is never served after its expiry time, which is CacheTTL
\* after its last write: a search called when the entry has expired goes on
\* as a cache miss and issues the vector (and lexical) search again.
C13_ExpiredEntryIsAMiss ==
  [][/\ db_cache' # db_cache => db_cache'.expires_at = now + CacheTTL
     /\ (LookupStep /\ db_cache.present /\ db_cache.expires_at <= now)
          => /\ se_pc' = "searching"
             /\ ~se_out'.returned
             /\ se_vec'.state = "pending"
             /\ se_opts.useHybridSearch => se_ft'.state = "pending"]_vars

\* a search is running while the cache holds an expired entry with results
C13_Witness ==
  /\ se_pc = "searching"
  /\ db_cache.present /\ Len(db_cache.chunkIds) > 0
  /\ db_cache.expires_at <= now
  /\ se_vec.state = "pending"

\* C14: a failure of the cache never fails or changes a search: search
\* raises only when one of its database or embedding queries was rejected,
\* a search goes on as a miss while a live entry exists (its lookup
\* raised), and what a miss returns is the result of the uncached
\* computation whether or not the cache write succeeded.
C14_CacheFailureIsInvisible ==
  /\ se_out.raised => AnyRejected
  /\ (se_pc = "searching" /\ CachedSearch(db_cache, now))
       => ~se_out.raised /\ se_vec.state # "none"
  /\ (se_pc = "done" /\ ~se_out.analytics.cacheHit)
       => (se_out.returned <=> AllFulfilled)
  /\ (se_pc = "done" /\ se_out.returned /\ ~se_out.analytics.cacheHit)
       => se_out.results =
            (IF se_opts.useHybridSearch
             THEN Prefix(CombineAndRerank(se_vec.rows, se_ft.rows), EffLimit(se_opts.limit))
             ELSE se_vec.rows)

\* a miss returned results while the cache holds a live entry written from
\* another result list: the lookup of this search raised, and so did its write
C14_Witness ==
  /\ se_pc = "done" /\ se_out.returned /\ ~se_out.analytics.cacheHit
  /\ CachedSearch(db_cache, now)
  /\ Len(se_out.results) > 0
  /\ se_out.results # h_cached

\* C15: on a cache hit search returns without generating a query embedding
\* and without running the vector or the lexical search; the analytics have
\* cacheHit = true, vectorResults = 0 and fulltextResults = 0.
C15_HitRunsNoSearch ==
  (se_pc = "done" /\ se_out.analytics.cacheHit)
  => /\ se_out.returned
     /\ se_vec = NotStarted
     /\ se_ft = NotStarted
     /\ se_out.analytics.vectorResults = 0
     /\ se_out.analytics.fulltextResults = 0
     /\ se_out.analytics.totalResults = Len(se_out.results)

C15_Witness ==
  /\ CacheHit
  /\ Len(se_out.results) = 2
  /\ se_out.analytics.vectorResults = 0

\* C16: the content of every result of a cache hit is the content the chunk
\* has in text_chunks at the time of the hit, with the order and the scores
\* of the cache entry.
C16_HitReturnsCurrentContent ==
  [][(LookupStep /\ se_pc' = "done" /\ se_out'.analytics.cacheHit)
      => LET rs == se_out'.results
         IN /\ [k \in 1..Len(rs) |-> rs[k].chunkId] = db_cache.chunkIds
            /\ [k \in 1..Len(rs) |-> rs[k].similarity] = db_cache.scores
            /\ \A k \in 1..Len(rs) :
                 rs[k].contentEnglish = db_chunks[rs[k].chunkId].content]_vars

\* a hit returned a chunk with the content 'b' that saveChunks gave it after
\* the entry was written with the content 'a'
C16_Witness ==
  /\ CacheHit
  /\ \E k \in 1..Len(se_out.results) :
       /\ h_cached[k].chunkId = se_out.results[k].chunkId
       /\ h_cached[k].contentEnglish = TextOf(<<"a">>)
       /\ se_out.results[k].contentEnglish = TextOf(<<"b">>)

\* ---------------------------------------------------------------- structured index
\* the lowercased question contains the lowercased term
Lowered(str) ==
  [i \in 1..Len(str) |-> CASE str[i] = "A" -> "a" [] str[i] = "B" -> "b" [] OTHER -> str[i]]
Contained(term) ==
  LET q == Lowered(gr_question)
      t == Lowered(term)
  IN \E i \in 1..(Len(q) + 1) :
       \A j \in 1..Len(t) : i + j - 1 <= Len(q) /\ q[i + j - 1] = t[j]

HowMany(terms) == Cardinality({i \in 1..Len(terms) : Contained(terms[i])})

\* the (chapter, topic) places of the topics the question contains
ContainedTopics(chapters) ==
  UNION {{<<c, t>> : t \in {u \in 1..Len(chapters[c].topics) : Contained(chapters[c].topics[u])}} :
           c \in 1..Len(chapters)}

\* 10 for the title, 8 for each alternative title, 3 for each keyword, 2 for
\* each topic of each chapter and of each chapter of each part
ExpectedScore(work) ==
  (IF Contained(work.title) THEN 10 ELSE 0)
  + 8 * HowMany(work.alternativeTitles)
  + 3 * HowMany(work.keywords)
  + 2 * Cardinality(ContainedTopics(work.chapters.list))
  + 2 * Cardinality(UNION {{<<p, ct>> : ct \in ContainedTopics(work.parts.list[p].chapters)} :
                             p \in 1..Len(work.parts.list)})

IndexWorks == gr_index.works
Positive == {i \in 1..Len(IndexWorks) : ExpectedScore(IndexWorks[i]) > 0}

\* C17: findMatchingWorks returns only works with a score above 0, at most
\* 3 of them, those with the 3 highest scores; a work with a strictly higher
\* score precedes one with a lower score and works with equal scores keep
\* the order of the index.
C17_TopThreeByScoreStable ==
  gr_pc # "called" =>
    LET score(i) == ExpectedScore(IndexWorks[i])
    IN /\ Len(gr_matched) <= 3
       /\ Len(gr_matched) = (IF Cardinality(Positive) < 3 THEN Cardinality(Positive) ELSE 3)
       /\ \E pos \in [1..Len(gr_matched) -> Positive] :
            /\ \A k \in 1..Len(gr_matched) : gr_matched[k] = IndexWorks[pos[k]]
            /\ \A k, l \in 1..Len(gr_matched) :
                 k < l => \/ score(pos[k]) > score(pos[l])
                          \/ score(pos[k]) = score(pos[l]) /\ pos[k] < pos[l]
            /\ \A i \in Positive \ {pos[k] : k \in 1..Len(gr_matched)} :
                 \A k \in 1..Len(gr_matched) :
                   \/ score(pos[k]) > score(i)
                   \/ score(pos[k]) = score(i) /\ pos[k] < i

\* four works of the index score above 0, two of the three returned are
\* different works with the same score
C17_Witness ==
  /\ gr_pc = "matched"
  /\ Cardinality(Positive) = 4
  /\ Len(gr_matched) = 3
  /\ gr_matched[2] # gr_matched[3]
  /\ ExpectedScore(gr_matched[2]) = ExpectedScore(gr_matched[3])
  /\ ExpectedScore(gr_matched[1]) > ExpectedScore(gr_matched[2])

\* C18: the score findMatchingWorks computes for a work is 10 if the question
\* contains the title, plus 8 for each alternative title, 3 for each keyword
\* and 2 for each chapter topic (of flat chapters and of the chapters of
\* every part) it contains, compared in lower case; a work with a keyword
\* the question contains is scored above 0.
C18_ScoreIsWeightedSum ==
  gr_pc # "called" =>
    /\ Len(gr_scored) = Cardinality(Positive)
    /\ \A i \in Positive :
         gr_scored[Cardinality({k \in Positive : k <= i})] =
           [work |-> IndexWorks[i], score |-> ExpectedScore(IndexWorks[i])]
    /\ \A i \in 1..Len(IndexWorks) :
         HowMany(IndexWorks[i].keywords) > 0 =>
           \E k \in 1..Len(gr_scored) :
             gr_scored[k].work = IndexWorks[i] /\ gr_scored[k].score > 0

\* the question 'aB' (or 'Ba'...) gives the work titled 'Ab' with the keyword
\* 'b' 13 and a work with parts 6 for three topics
C18_Witness ==
  /\ gr_pc = "matched"
  /\ \E k \in 1..Len(gr_scored) :
       gr_scored[k].work.title = <<"A", "b">> /\ gr_scored[k].score = 13
  /\ \E k \in 1..Len(gr_scored) :
       gr_scored[k].work.parts.present /\ gr_scored[k].score = 6

NoRepeat(refs) == \A i, j \in 1..Len(refs) : i # j => refs[i] # refs[j]

\* C19: generateWitnessRefs returns at most 8 references and
\* addAdjacentChapters at most 12, and neither list holds a reference twice.
C19_ReferenceCaps ==
  /\ gr_pc \in {"based", "returned"} => Len(gr_base) <= 8 /\ NoRepeat(gr_base)
  /\ (gr_pc = "returned" /\ Len(gr_matched) = 0) => Len(gr_out) <= 8 /\ NoRepeat(gr_out)
  /\ (gr_pc = "returned" /\ Len(gr_matched) > 0) => Len(gr_out) <= 12 /\ NoRepeat(gr_out)

\* both caps cut: 8 base references and 12 references in all
C19_Witness ==
  /\ gr_pc = "returned"
  /\ Len(gr_base) = 8
  /\ Len(gr_out) = 12

\* the matched works with flat chapters, and the places of the base
\* references in one of them
FlatMatched ==
  {m \in 1..Len(gr_matched) :
     gr_matched[m].structure = "simple_chapters" /\ gr_matched[m].chapters.present}
ChaptersOf(m) == gr_matched[m].chapters.list
RefSet(refs) == {refs[k] : k \in 1..Len(refs)}
BaseIdx(m) == {i \in 1..Len(ChaptersOf(m)) : ChaptersOf(m)[i].tref \in RefSet(gr_base)}
\* the places within 2 of place i, without i
Window(m, i) == {j \in 1..Len(ChaptersOf(m)) : j # i /\ j >= i - 2 /\ j <= i + 2}
WindowRefs ==
  UNION {UNION {{ChaptersOf(m)[j].tref : j \in Window(m, i)} : i \in BaseIdx(m)} :
           m \in FlatMatched}

Expanded == gr_pc = "returned" /\ Len(gr_matched) > 0

\* no chapter of a flat matched work is in the output unless it is a base
\* reference or within 2 places of one
NothingOutsideWindows ==
  \A m \in FlatMatched : \A j \in 1..Len(ChaptersOf(m)) :
    ChaptersOf(m)[j].tref \in RefSet(gr_out)
      => j \in BaseIdx(m) \/ \E i \in BaseIdx(m) : j \in Window(m, i)

\* C20 as stated: for a flat matched work with N chapters and a base
\* reference at place i, the output of addAdjacentChapters holds the chapters
\* at the places max(0,i-2)..min(N-1,i+2) other than i, and no chapter of
\* the work outside these places.
C20_WindowAlwaysIncluded ==
  Expanded =>
    /\ \A m \in FlatMatched : \A i \in BaseIdx(m) : \A j \in Window(m, i) :
         ChaptersOf(m)[j].tref \in RefSet(gr_out)
    /\ NothingOutsideWindows

\* C20, amended: the output is the base references followed by the chapters
\* of the windows, each reference once, cut after 12: it holds every chapter
\* of every window when the base references and the windows are at most 12
\* references in all, and never a chapter outside the windows.
C20_WindowIncludedUpToCap ==
  Expanded =>
    LET all == RefSet(gr_base) \cup WindowRefs
    IN /\ SubSeq(gr_out, 1, Len(gr_base)) = gr_base
       /\ RefSet(gr_out) \subseteq all
       /\ Len(gr_out) = (IF Cardinality(all) < 12 THEN Cardinality(all) ELSE 12)
       /\ Cardinality(all) <= 12 => RefSet(gr_out) = all
       /\ NothingOutsideWindows

\* one base reference in the middle of five chapters: the other four were added
C20_Witness ==
  /\ Expanded
  /\ \E m \in FlatMatched :
       /\ Len(ChaptersOf(m)) = 5
       /\ BaseIdx(m) = {3}
       /\ \A j \in {1, 2, 4, 5} : ChaptersOf(m)[j].tref \in RefSet(gr_out)

\* the opening chapters of a work: the first min(3, N) chapters of a work
\* with flat chapters, the first 2 chapters of each of the first 2 parts of
\* a work with parts, the work's own reference otherwise
OpeningRefs(work) ==
  IF work.structure = "simple_chapters" /\ work.chapters.present
  THEN {work.chapters.list[k].tref : k \in 1..Min(3, Len(work.chapters.list))}
  ELSE IF work.structure = "complex_parts" /\ work.parts.present
  THEN UNION {{work.parts.list[m].chapters[k].tref :
                 k \in 1..Min(2, Len(work.parts.list[m].chapters))} :
              m \in 1..Min(2, Len(work.parts.list))}
  ELSE IF work.tref # 0 THEN {work.tref} ELSE {}

FellBack == gr_pc = "returned" /\ Len(gr_matched) = 0

\* C21: when no work scores above 0, every reference generateGuessRefs
\* returns is an opening chapter of one of the default works.
C21_FallbackOpeningChapters ==
  FellBack =>
    RefSet(gr_out) \subseteq
      UNION {OpeningRefs(gr_index.works[k]) : k \in 1..gr_index.mains}

\* the sentence has a "(", a ")" after it and between them exactly a
\* reference of a witness
CitesWitness(sentence, valid) ==
  \E p, q \in 1..Len(sentence) :
    /\ sentence[p] = "("
    /\ sentence[q] = ")"
    /\ q > p + 1
    /\ SubSeq(sentence, p + 1, q - 1) \in valid

Verified == va_pc \in {"verified", "reverified"}

\* C22: verifyAnswer leaves a sentence unchanged if and only if one of its
\* parenthesized substrings is exactly the reference of a witness, rewrites
\* every other sentence as marker + sentence + " (Needs source)", and counts
\* the rewritten sentences in unsourcedSentences and all sentences in
\* totalSentences.
C22_SourcedIffCitesWitness ==
  Verified =>
    /\ \A k \in 1..Len(va_sentences) :
         va_sentences[k].verified =
           IF CitesWitness(va_sentences[k].sentence, ValidTrefs(va_witnesses))
           THEN va_sentences[k].sentence
           ELSE Flagged(va_sentences[k].sentence)
    /\ va_result.unsourcedSentences =
         Cardinality({k \in 1..Len(va_sentences) :
                        va_sentences[k].verified # va_sentences[k].sentence})
    /\ va_result.totalSentences = Len(va_sentences)

\* where the text of sentence k of the first call starts in verifiedAnswer
RECURSIVE StartInVerified(_)
StartInVerified(k) ==
  (IF k = 1 THEN 0
   ELSE StartInVerified(k - 1) + Len(va_sentences[k - 1].sentence)
        + (IF va_sentences[k - 1].sourced THEN 0 ELSE Len(NeedsSource)) + 1)
  + (IF va_sentences[k].sourced THEN 0 ELSE Len(WarningMarker) + 1)

SourcedFirst == {k \in 1..Len(va_sentences) : va_sentences[k].sourced}
FlaggedFirst == {k \in 1..Len(va_sentences) : ~va_sentences[k].sourced}

\* C23: in a second call of verifyAnswer, on the verifiedAnswer of the first
\* and with the same witnesses, every sentence the first call classified as
\* sourced lies within one sentence of the second call, and that sentence is
\* classified as sourced and returned unchanged.
C23_SourcedStaysUnflagged ==
  va_pc = "reverified" =>
    \A k \in SourcedFirst :
      /\ SubSeq(va_result.verifiedAnswer, StartInVerified(k) + 1,
                StartInVerified(k) + Len(va_sentences[k].sentence))
           = va_sentences[k].sentence
      /\ \E j \in 1..Len(va_sentences2) :
           /\ va_sentences2[j].from <= StartInVerified(k) + 1
           /\ StartInVerified(k) + Len(va_sentences[k].sentence) <= va_sentences2[j].to
           /\ va_sentences2[j].sourced
           /\ va_sentences2[j].verified = va_sentences2[j].sentence

\* a sourced and a flagged sentence that the second call reads as one sentence
C23_Witness ==
  /\ va_pc = "reverified"
  /\ SourcedFirst # {}
  /\ FlaggedFirst # {}
  /\ Len(va_sentences2) = 1
  /\ va_result2.unsourcedSentences = 0

\* ---------------------------------------------------------------- saveChunks
TrefsOfRows(rows) == {rows[k].tref : k \in 1..Len(rows)}
InsertFailed == sc_client # "none" /\ sc_i < Len(sc_chunks) /\ sc_result = "raised"

\* C24: saveChunks is atomic per batch: while the call runs no chunk of the
\* batch is visible to other connections; if a statement of the batch fails,
\* the call raises, the committed rows are those from before the call and the
\* client is released; the rows change only in a call that returns normally,
\* and then every chunk of the batch is visible.
C24_BatchIsAtomic ==
  /\ sc_pc \in {"connect", "begin", "loop", "catch"} => tc_rows = sc_before
  /\ (sc_pc = "returned" /\ InsertFailed) => tc_rows = sc_before /\ sc_client = "released"
  /\ (sc_pc \in {"finally", "returned"} /\ sc_result = "raised") => tc_rows = sc_before
  /\ sc_pc = "returned" => sc_client # "held"
  /\ (sc_pc \in {"finally", "returned"} /\ tc_rows # sc_before) =>
       sc_result = "ok" /\ sc_i = Len(sc_chunks)
  /\ (sc_pc = "returned" /\ sc_result = "ok") =>
       /\ sc_i = Len(sc_chunks)
       /\ \A k \in 1..Len(sc_chunks) : sc_chunks[k].tref \in TrefsOfRows(tc_rows)

\* the second statement failed after the first had written a row
C24_Witness ==
  /\ sc_pc = "returned"
  /\ InsertFailed
  /\ sc_i = 1
  /\ sc_tx # sc_before
  /\ tc_rows = sc_before
  /\ sc_client = "released"

\* the last chunk of the batch with the tref
LastOfTref(chunks, tref) ==
  chunks[CHOOSE k \in 1..Len(chunks) :
           /\ chunks[k].tref = tref
           /\ \A j \in (k + 1)..Len(chunks) : chunks[j].tref # tref]

\* C25: the store never holds two rows with one tref, and a saveChunks call
\* that meets no failure of its environment inserts or updates: afterwards
\* every tref of the batch has its row, with what the batch saved last.
C25_UpsertKeepsTrefUnique ==
  /\ \A i, j \in 1..Len(tc_rows) : tc_rows[i].tref = tc_rows[j].tref => i = j
  /\ (sc_pc = "returned" /\ sc_fault # "environment") =>
       /\ sc_result = "ok"
       /\ \A k \in 1..Len(sc_chunks) :
            \E i \in 1..Len(tc_rows) :
              /\ tc_rows[i].tref = sc_chunks[k].tref
              /\ tc_rows[i].content = LastOfTref(sc_chunks, sc_chunks[k].tref).content

\* ---------------------------------------------------------------- hybridSearch
\* what the fusion gives for the vector list and the lexical list
FusedOf(vectorRows, fulltextRows, limit) ==
  Prefix(SortBySimilarity(AddFulltext(AddVector(<< >>, vectorRows), fulltextRows)),
         EffLimit(limit))

\* C26: in hybridSearch both searches are pending, each called with twice the
\* limit, before either settles, and the list returned is the fusion of the
\* vector list and the lexical list whichever of the two settled first.
C26_FusionIgnoresCompletionOrder ==
  /\ (hy_pc = "awaiting" /\ hy_order = << >>) =>
       /\ hy_vec.state = "pending"
       /\ hy_ft.state = "pending"
       /\ hy_asked.vector = 2 * EffLimit(hy_limit)
       /\ hy_asked.fulltext = 2 * EffLimit(hy_limit)
  /\ (hy_pc = "returned" /\ hy_out.returned) =>
       /\ Len(hy_vec.rows) <= 2 * EffLimit(hy_limit)
       /\ Len(hy_ft.rows) <= 2 * EffLimit(hy_limit)
       /\ hy_out.results = FusedOf(hy_vec.rows, hy_ft.rows, hy_limit)

\* the lexical search settled first and found a chunk the vector search
\* found too
C26_Witness ==
  /\ hy_pc = "returned"
  /\ hy_out.returned
  /\ hy_order = <<"fulltext", "vector">>
  /\ \E k \in 1..Len(hy_out.results) : hy_out.results[k].searchType = "hybrid"
  /\ \E k \in 1..Len(hy_out.results) : hy_out.results[k].searchType = "vector"

\* ---------------------------------------------------------------- concurrent cache writers
\* the chunk ids and the stored scores of one write
WrittenBy(p) ==
  [chunkIds |-> [k \in 1..Len(cc_results[p]) |-> cc_results[p][k].chunkId],
   scores |-> [k \in 1..Len(cc_results[p]) |-> ToReal(cc_results[p][k].similarity)]]
Writers == {cc_wrote[k] : k \in 1..Len(cc_wrote)}

\* C27: when searches with one cache key write the cache concurrently, the
\* key has exactly one entry, its chunk ids and scores are those of the last
\* write, and every lookup returns the chunk ids and scores of one write.
C27_LastWriteWinsWhole ==
  /\ Len(cc_rows) <= 1
  /\ cc_wrote # << >> =>
       /\ Len(cc_rows) = 1
       /\ Seen(cc_rows[1]) = WrittenBy(cc_wrote[Len(cc_wrote)])
  /\ \A k \in 1..Len(cc_seen) : \E p \in Writers : cc_seen[k] = WrittenBy(p)

\* both searchers wrote, with different results, and a reader looked in
\* between
C27_Witness ==
  /\ Len(cc_wrote) = 2
  /\ WrittenBy(cc_wrote[1]).chunkIds # WrittenBy(cc_wrote[2]).chunkIds
  /\ WrittenBy(cc_wrote[1]).scores # WrittenBy(cc_wrote[2]).scores
  /\ cc_seen = <<WrittenBy(cc_wrote[1])>>
  /\ Seen(cc_rows[1]) = WrittenBy(cc_wrote[2])

\* ---------------------------------------------------------------- hybridBootstrapRAG, calls of the legacy function
\* C28: in one call of hybridBootstrapRAG the legacy function is called at
\* most once.
C28_LegacyCalledAtMostOnce == Len(rc_leg) <= 1

\* ---------------------------------------------------------------- TextChunker.chunkText
\* C29: chunkText returns for every text and every options with
\* maxChunkLength > 0 and 0 <= overlapSize < maxChunkLength.
C29_ChunkTextTerminates == <>(ck_pc = "returned")

\* ---------------------------------------------------------------- cache hit against cache miss
\* C30: with the query, the options and the chunk store unchanged, the
\* results of a cache hit are the results the computation that wrote the
\* entry returned, equal in every field (chunk, content, similarity,
\* searchType, matchedTerms) and in the same order.
C30_HitEqualsMissFieldByField ==
  CacheHit =>
    /\ Len(se_out.results) = Len(h_cached)
    /\ \A k \in 1..Len(h_cached) :
         k <= Len(se_out.results) => se_out.results[k] = h_cached[k]

====
